---- MODULE Spec2Model ----
(***************************************************************************)
(* Job execution subsystem of the document-intelligence service:           *)
(* JobRunner (app/jobs/runner.py) driving Job records of a JobStore        *)
(* (app/jobs/store.py, in-memory and Redis backends) through               *)
(* queued -> running -> {succeeded | failed | queued}, with hand-off to    *)
(* the dead letter store (app/jobs/dlq.py).                                *)
(*                                                                         *)
(* Time.  Every datetime held by the program (a job's next_retry_at, a     *)
(* copy of it in a local variable, the deadline of an asyncio.sleep) is    *)
(* kept relative to the current instant: the value is the number of        *)
(* seconds until that instant, 0 once it has been reached, NoTime for      *)
(* None.  Tick lets one second pass and lowers every positive value.  The  *)
(* code only ever compares these datetimes with utcnow() (>, <=, and the   *)
(* sign of the difference), which is the comparison of the relative value  *)
(* with 0.                                                                 *)
(*                                                                         *)
(* Scheduling.  The code runs as asyncio tasks.  A task keeps the event    *)
(* loop until it awaits something that really suspends.  The methods of    *)
(* the in-memory stores are coroutines without any suspending await, so    *)
(* with backend = "memory" a task only yields at a pipeline handler call,  *)
(* at asyncio.sleep and when it ends; with backend = "redis" every store   *)
(* call is a network round trip and yields.  current_task is the task      *)
(* holding the event loop, NoTask when the loop is free.                   *)
(***************************************************************************)
EXTENDS Integers, Sequences, FiniteSets, TLC

VARIABLES
    backend,        \* "memory" | "redis": the JobStore / DeadLetterStore classes in use
    callers,        \* the tasks that issue calls in this deployment
    jobs,           \* JobStore contents: job_id -> Job record (DOMAIN = stored ids)
    created,        \* ids handed out by create (uuid4 never repeats)
    job_index,      \* RedisJobStore sorted sets jobs:status:<s>, jobs:project:<p>,
                    \* and the time to live of each key job:<id>
    dlq,            \* DeadLetterStore contents: sequence of entries, in order of add
    job_id_index,   \* DeadLetterStore job-id -> dlq-id index (0 = no mapping)
    dlq_index,      \* RedisDeadLetterStore sorted sets unprocessed, type:<t>, project:<p>
    current_task,   \* task holding the event loop
    pc,             \* per task: position in the code
    call,           \* per task: entry point being executed and its arguments
    loc,            \* per task: local variables of run_job
    upd,            \* per task: JobStore.update in progress
    result,         \* per task: value returned by the last finished call
    handler_calls,  \* per job: number of pipeline handler invocations (history)
    dlq_adds        \* per job: number of DeadLetterStore.add calls (history)

vars == <<backend, callers, jobs, created, job_index, dlq, job_id_index,
          dlq_index, current_task, pc, call, loc, upd, result, handler_calls,
          dlq_adds>>

----------------------------------------------------------------------------
(* Bounds of the model *)

\* largest max_retries a job is created with
MaxRetriesBound == 2

\* cap on pipeline handler invocations per job (only reached through races)
MaxHandlerCalls == 3

\* retry settings of the runner under test (Settings.job_retry_*), in seconds
RetryBaseDelay == 1
RetryMaxDelay == 3
RetryBackoffMultiplier == 2

\* ids of the jobs the runner is exercised on, and all ids the stores may hold
JobIds == {"j1"}
StoreJobIds == {"j1", "j2", "j3"}
Projects == {"proj1", "proj2"}
NoProject == "none"
Procs == {"p1", "p2"}
Backends == {"memory", "redis"}

NoTask == "none"
NoTime == -1

----------------------------------------------------------------------------
(* Job model *)

QUEUED == "queued"
RUNNING == "running"
SUCCEEDED == "succeeded"
FAILED == "failed"
CANCELLED == "cancelled"

JobStatus == {QUEUED, RUNNING, SUCCEEDED, FAILED, CANCELLED}
TerminalStatus == {SUCCEEDED, FAILED, CANCELLED}

\* value of a `Job | None` that is None
NoJob == [status |-> "absent"]

\* error message carried by no error (None)
NoError == <<>>

\* Job fields that JobStore.create sets explicitly or leaves at the defaults
\* declared by the Job model
JobDeclaredDefaults ==
    [status |-> QUEUED, output |-> FALSE, error |-> NoError, progress |-> 0,
     started_at |-> FALSE, completed_at |-> FALSE]

\* the arguments of a create request: type, input and metadata of the job
Request(job_type, input_data, project_id, document_id, created_by) ==
    [type |-> job_type, input |-> input_data, project_id |-> project_id,
     document_id |-> document_id, created_by |-> created_by]

\* Retry fields of Job that the stores and the runner read and write
\* (attempt_count, max_retries, last_error, next_retry_at) and their defaults
JobRetryDefaults(max_retries) ==
    [attempt_count |-> 0, max_retries |-> max_retries, last_error |-> NoError,
     next_retry_at |-> NoTime]

\* Job(job_id=..., type=..., status=QUEUED, input=..., project_id=..., ...,
\* max_retries=max_retries); created_at is the instant of the call, kept as
\* the rank of the job in the order of creation
NewJob(job_id, request, created_at, max_retries) ==
    [f \in {"job_id", "type", "input", "project_id", "document_id",
            "created_by", "created_at", "status", "output", "error",
            "progress", "started_at", "completed_at", "attempt_count",
            "max_retries", "last_error", "next_retry_at"} |->
        IF f = "job_id" THEN job_id
        ELSE IF f = "created_at" THEN created_at
        ELSE IF f \in DOMAIN request THEN request[f]
        ELSE IF f \in DOMAIN JobDeclaredDefaults THEN JobDeclaredDefaults[f]
        ELSE JobRetryDefaults(max_retries)[f]]

\* the job type a request creates job j with (fixed per id to keep the model small)
JobTypeOf(j) == IF j = "j1" THEN "document_ingest" ELSE "qna"

\* the request that creates job j where the runner is exercised (fixed per id)
RequestOf(j) == Request(JobTypeOf(j), <<"input", j>>, "proj1", <<"doc", j>>, "user1")

JobType == {"document_ingest", "plan_summary", "trade_scope_extract",
            "tender_scope_doc", "qna"}

----------------------------------------------------------------------------
(* Failure classifier and backoff calculator (pure functions).              *)
(* An error message is a sequence of words; `pattern in error_lower` is     *)
(* containment of the pattern's words as a contiguous run of the message.   *)

PERMANENT_ERROR_PATTERNS ==
    { <<"invalid_input">>, <<"validation", "error">>, <<"invalid", "document">>,
      <<"file", "not", "found">>, <<"permission", "denied">>,
      <<"authentication", "failed">>, <<"invalid", "api", "key">>,
      <<"quota", "exceeded">> }

TIMEOUT_ERROR_PATTERNS ==
    { <<"timeout">>, <<"timed", "out">>, <<"deadline", "exceeded">>,
      <<"connection", "timeout">> }

EXTERNAL_SERVICE_PATTERNS ==
    { <<"api", "error">>, <<"service", "unavailable">>, <<"rate", "limit">>,
      <<"500">>, <<"502">>, <<"503">>, <<"504">> }

\* str.lower() on one word, for the capitalised words the model's messages use
LowerWord(w) ==
    CASE w = "Invalid" -> "invalid"
      [] w = "API" -> "api"
      [] w = "Key" -> "key"
      [] w = "Timeout" -> "timeout"
      [] w = "Service" -> "service"
      [] w = "Unavailable" -> "unavailable"
      [] w = "Input" -> "input"
      [] w = "Required" -> "required"
      [] w = "Missing" -> "missing"
      [] OTHER -> w

Lower(msg) == [i \in 1..Len(msg) |-> LowerWord(msg[i])]

\* pattern in text
Contains(text, pattern) ==
    \E i \in 1..(Len(text) - Len(pattern) + 1) :
        \A k \in 1..Len(pattern) : text[i + k - 1] = pattern[k]

\* the word "invalid_input" has "input" as a substring
ContainsInput(text) ==
    Contains(text, <<"input">>) \/ Contains(text, <<"invalid_input">>)

\* classify_error with the permanent-error loop ahead of the timeout loop
classify_error_PermanentFirst(error_message) ==
    LET error_lower == Lower(error_message) IN
    IF \E p \in PERMANENT_ERROR_PATTERNS : Contains(error_lower, p)
    THEN "permanent_error"
    ELSE IF \E p \in TIMEOUT_ERROR_PATTERNS : Contains(error_lower, p)
    THEN "timeout"
    ELSE IF ContainsInput(error_lower)
            /\ (Contains(error_lower, <<"missing">>)
                \/ Contains(error_lower, <<"required">>))
    THEN "invalid_input"
    ELSE IF \E p \in EXTERNAL_SERVICE_PATTERNS : Contains(error_lower, p)
    THEN "external_service_error"
    ELSE "unknown"

classify_error(error_message) ==
    LET error_lower == Lower(error_message) IN
    IF \E p \in TIMEOUT_ERROR_PATTERNS : Contains(error_lower, p)
    THEN "timeout"
    ELSE IF \E p \in PERMANENT_ERROR_PATTERNS : Contains(error_lower, p)
    THEN "permanent_error"
    ELSE IF ContainsInput(error_lower)
            /\ (Contains(error_lower, <<"missing">>)
                \/ Contains(error_lower, <<"required">>))
    THEN "invalid_input"
    ELSE IF \E p \in EXTERNAL_SERVICE_PATTERNS : Contains(error_lower, p)
    THEN "external_service_error"
    ELSE "unknown"

\* is_retryable_error with INVALID_INPUT missing from the tuple
is_retryable_error_InputRetried(failure_reason) ==
    failure_reason \notin {"permanent_error"}

is_retryable_error(failure_reason) ==
    failure_reason \notin {"permanent_error", "invalid_input"}

RECURSIVE Pow(_, _)
Pow(b, e) == IF e <= 0 THEN 1 ELSE b * Pow(b, e - 1)

Min(a, b) == IF a <= b THEN a ELSE b

\* calculate_retry_delay with the exponent attempt instead of attempt - 1
calculate_retry_delay_AttemptExponent(attempt, base_delay, max_delay, multiplier) ==
    LET delay == base_delay * Pow(multiplier, attempt)
    IN  Min(delay, max_delay)

calculate_retry_delay(attempt, base_delay, max_delay, multiplier) ==
    LET delay == base_delay * Pow(multiplier, attempt - 1)
    IN  Min(delay, max_delay)

\* messages the pipeline handlers raise in the model
HandlerErrors ==
    { <<"ServiceUnavailable:", "503">>,
      <<"Invalid", "API", "key">>,
      <<"Required", "input", "absent">> }

----------------------------------------------------------------------------
(* Job store *)

\* arguments of JobStore.update; each field has a value standing for None
NoArgs ==
    [status |-> "none", progress |-> -1, output |-> FALSE, error |-> NoError,
     attempt_count |-> -1, last_error |-> NoError, next_retry_at |-> NoTime]

\* update with completed_at assigned for succeeded and failed only
ApplyUpdate_CancelledNotCompleted(job, a) ==
    [job EXCEPT
        !.status = IF a.status # "none" THEN a.status ELSE @,
        !.started_at = IF a.status = RUNNING /\ ~job.started_at THEN TRUE ELSE @,
        !.completed_at = IF a.status \in {SUCCEEDED, FAILED} THEN TRUE ELSE @,
        !.progress = IF a.progress # -1 THEN a.progress ELSE @,
        !.output = IF a.output # FALSE THEN a.output ELSE @,
        !.error = IF a.error # NoError THEN a.error ELSE @,
        !.attempt_count = IF a.attempt_count # -1 THEN a.attempt_count ELSE @,
        !.last_error = IF a.last_error # NoError THEN a.last_error ELSE @,
        !.next_retry_at = IF a.next_retry_at # NoTime THEN a.next_retry_at ELSE @]

\* the field assignments of update (identical in both backends):
\* a field is assigned only when its argument is not None
ApplyUpdate(job, a) ==
    [job EXCEPT
        !.status = IF a.status # "none" THEN a.status ELSE @,
        !.started_at = IF a.status = RUNNING /\ ~job.started_at THEN TRUE ELSE @,
        !.completed_at = IF a.status \in TerminalStatus THEN TRUE ELSE @,
        !.progress = IF a.progress # -1 THEN a.progress ELSE @,
        !.output = IF a.output # FALSE THEN a.output ELSE @,
        !.error = IF a.error # NoError THEN a.error ELSE @,
        !.attempt_count = IF a.attempt_count # -1 THEN a.attempt_count ELSE @,
        !.last_error = IF a.last_error # NoError THEN a.last_error ELSE @,
        !.next_retry_at = IF a.next_retry_at # NoTime THEN a.next_retry_at ELSE @]

\* A Redis sorted set whose scores are instants of the clock, which only
\* moves forward: the members in ascending score, i.e. in the order of their
\* last zadd.
ZRem(zset, member) == SelectSeq(zset, LAMBDA m : m # member)

ZAdd(zset, member) == Append(ZRem(zset, member), member)

Reverse(seq) == [i \in 1..Len(seq) |-> seq[Len(seq) + 1 - i]]

Take(seq, n) == SubSeq(seq, 1, IF n < Len(seq) THEN n ELSE Len(seq))

Range(seq) == {seq[i] : i \in 1..Len(seq)}

\* zrevrange(key, 0, limit - 1)
ZRevRange(zset, limit) == Take(Reverse(zset), limit)

\* job_ttl_hours of RedisJobStore (72 by default), in hours
JobTtlHours == 2

\* ttl: the hours a key job:<id> has left, NoTime when there is no such key
EmptyJobIndex ==
    [status |-> [s \in JobStatus |-> <<>>], project |-> [pr \in Projects |-> <<>>],
     ttl |-> [j \in StoreJobIds |-> NoTime]]

EmptyDlqIndex ==
    [unprocessed |-> <<>>, type |-> [t \in JobType |-> <<>>],
     project |-> [pr \in Projects |-> <<>>]]

\* JobStore.get
Get(j) == IF j \in DOMAIN jobs THEN jobs[j] ELSE NoJob

\* JobStore.complete(job_id, output)
CompleteArgs == [NoArgs EXCEPT !.status = SUCCEEDED, !.progress = 1, !.output = TRUE]

\* JobStore.fail(job_id, error)
FailArgs(error) == [NoArgs EXCEPT !.status = FAILED, !.error = error]

----------------------------------------------------------------------------
(* Tasks *)

NoCall == [op |-> "none", job_id |-> "none", dlq_store |-> FALSE]

NoLoc == [current_attempt |-> 0, max_retries |-> 0, error_msg |-> NoError,
          job_present |-> FALSE, job_attempt_count |-> 0, job_max_retries |-> 0,
          job_fields |-> "none", delay |-> NoTime,
          failure_reason |-> "none", retryable |-> FALSE,
          sweep |-> [op |-> "none", dlq_store |-> FALSE, limit |-> 0,
                     pending |-> <<>>, i |-> 0, processed |-> 0, ret |-> -1],
          backoff |-> [attempt |-> 0, base_delay |-> 0, max_delay |-> 0,
                       multiplier |-> 0, delay |-> NoTime],
          listing |-> [status |-> "none", project_id |-> "none", limit |-> 0,
                       jobs |-> <<>>],
          dlq_ret |-> [op |-> "none", dlq_id |-> 0, job_id |-> "none",
                       processed |-> "none", job_type |-> "none",
                       project_id |-> "none", limit |-> 0, offset |-> 0,
                       processed_only |-> FALSE, older_than_hours |-> -1,
                       entry |-> [dlq_id |-> 0], flag |-> FALSE, count |-> 0,
                       ids |-> <<>>]]

NoUpd == [args |-> NoArgs, job |-> NoJob, old_status |-> "none", ret |-> "none"]

NoSweep == NoLoc.sweep

\* p is inside process_pending_jobs or process_retry_jobs
InSweep(p) == loc[p].sweep.op # "none" /\ loc[p].sweep.ret = -1

\* the locals of a call that begins or ends inside the sweep with locals l:
\* the frame of the sweep stays
Fresh(l) == [NoLoc EXCEPT !.sweep = l.sweep]

\* task p may take a step: it is a caller and the event loop is free or its own
Sched(p) == p \in callers /\ current_task \in {NoTask, p}

\* who holds the event loop after a step of p; suspends = the step ends in an
\* await that really suspends (a network call, a sleep, the end of the task)
Holder(p, suspends) == IF suspends \/ backend = "redis" THEN NoTask ELSE p

StatusOf(job) == job.status

TypeOK ==
    /\ backend \in Backends
    /\ callers \subseteq Procs
    /\ DOMAIN jobs \subseteq created
    /\ created \subseteq StoreJobIds
    /\ current_task \in Procs \cup {NoTask}
    /\ \A j \in DOMAIN jobs :
          /\ jobs[j].status \in JobStatus
          /\ jobs[j].attempt_count \in 0..(MaxHandlerCalls + 1)
          /\ jobs[j].next_retry_at \in {NoTime} \cup 0..RetryMaxDelay

Init ==
    /\ backend \in Backends
    /\ callers \in {{"p1"}, Procs}
    /\ jobs = <<>>
    /\ created = {}
    /\ job_index = EmptyJobIndex
    /\ dlq = <<>>
    /\ job_id_index = [j \in StoreJobIds |-> 0]
    /\ dlq_index = EmptyDlqIndex
    /\ current_task = NoTask
    /\ pc = [p \in Procs |-> "idle"]
    /\ call = [p \in Procs |-> NoCall]
    /\ loc = [p \in Procs |-> NoLoc]
    /\ upd = [p \in Procs |-> NoUpd]
    /\ result = [p \in Procs |-> "none"]
    /\ handler_calls = [j \in StoreJobIds |-> 0]
    /\ dlq_adds = [j \in StoreJobIds |-> 0]

\* JobStore.create: the new job under a fresh id; RedisJobStore also enters
\* the id in the queued index and, if project_id is given, in the project index
JobStoreCreate(j, request, max_retries) ==
    /\ j \notin created
    /\ created' = created \cup {j}
    /\ jobs' = (j :> NewJob(j, request, Cardinality(created) + 1, max_retries))
                @@ jobs
    /\ job_index' =
          IF backend = "redis"
          THEN [job_index EXCEPT
                   !.status[QUEUED] = ZAdd(@, j),
                   !.project = IF request.project_id # NoProject
                               THEN [@ EXCEPT ![request.project_id] = ZAdd(@, j)]
                               ELSE @,
                   !.ttl[j] = JobTtlHours]
          ELSE job_index

\* a route calls job_store.create, no task of the model being under way
Create(j, request, max_retries) ==
    /\ current_task = NoTask
    /\ JobStoreCreate(j, request, max_retries)
    /\ UNCHANGED <<backend, callers, dlq, job_id_index, current_task, pc, call,
                   loc, upd, result, handler_calls, dlq_adds, dlq_index>>

\* JobStore.create, as the job routes call it
CreateJob(j, max_retries) == Create(j, RequestOf(j), max_retries)

----------------------------------------------------------------------------
(* JobStore.update as the tasks execute it *)

\* update(job_id, ...): the lookup and, in memory, the assignment on the stored
\* object; in Redis the assignment is made on a copy that is written back later
UpdateGet(p) ==
    /\ pc[p] = "update_get"
    /\ Sched(p)
    /\ LET j == call[p].job_id IN
       IF j \notin DOMAIN jobs
       THEN /\ upd' = [upd EXCEPT ![p].job = NoJob]
            /\ pc' = [pc EXCEPT ![p] = upd[p].ret]
            /\ jobs' = jobs
       ELSE IF backend = "memory"
       THEN /\ jobs' = [jobs EXCEPT ![j] = ApplyUpdate(@, upd[p].args)]
            /\ upd' = [upd EXCEPT ![p].job = jobs'[j]]
            /\ pc' = [pc EXCEPT ![p] = upd[p].ret]
       ELSE /\ upd' = [upd EXCEPT ![p].job = ApplyUpdate(jobs[j], upd[p].args),
                                  ![p].old_status = jobs[j].status]
            /\ pc' = [pc EXCEPT ![p] = "update_set"]
            /\ jobs' = jobs
    /\ current_task' = Holder(p, FALSE)
    /\ UNCHANGED <<backend, callers, created, dlq, job_id_index, call, loc,
                   result, handler_calls, dlq_adds,
                   job_index, dlq_index>>

\* the time to live update writes the key with: the one it has left if the
\* key is there (ttl > 0), else the full job_ttl_hours
UpdateTtl(ttl) == IF ttl > 0 THEN ttl ELSE JobTtlHours

\* RedisJobStore.update: ttl and setex of the modified copy and, when the
\* status argument differs from the status read, the move between the status
\* indices
UpdateSet(p) ==
    /\ pc[p] = "update_set"
    /\ Sched(p)
    /\ jobs' = (call[p].job_id :> upd[p].job) @@ jobs
    /\ job_index' =
          [job_index EXCEPT
              !.ttl[call[p].job_id] = UpdateTtl(@),
              !.status =
                 IF upd[p].args.status # "none"
                    /\ upd[p].args.status # upd[p].old_status
                 THEN [s \in JobStatus |->
                         IF s = upd[p].args.status THEN ZAdd(@[s], call[p].job_id)
                         ELSE IF s = upd[p].old_status
                         THEN ZRem(@[s], call[p].job_id)
                         ELSE @[s]]
                 ELSE @]
    /\ pc' = [pc EXCEPT ![p] = upd[p].ret]
    /\ current_task' = Holder(p, FALSE)
    /\ UNCHANGED <<backend, callers, created, dlq, job_id_index, call, loc, upd,
                   result, handler_calls, dlq_adds, dlq_index>>

----------------------------------------------------------------------------
(* JobRunner.run_job and run_job_with_immediate_retry *)

\* The end of run_job with return value job.  Called directly, the task ends.
\* Called from run_job_with_immediate_retry, the loop body continues: return
\* on None or a terminal status, sleep when next_retry_at lies ahead, and
\* otherwise call run_job again at once.
ReturnFromRunJob(p, job) ==
    LET ends == \/ call[p].op = "run_job"
                \/ job = NoJob
                \/ job.status \in TerminalStatus
        sleeps == /\ ~ends
                  /\ job.next_retry_at # NoTime
                  /\ job.next_retry_at > 0
    IN  /\ pc' = [pc EXCEPT ![p] = IF ends
                                   THEN IF InSweep(p) THEN "sw_loop" ELSE "idle"
                                   ELSE IF sleeps THEN "ir_sleep" ELSE "rj_get"]
        /\ result' = [result EXCEPT ![p] = IF ends THEN job.status ELSE @]
        /\ call' = [call EXCEPT ![p] = IF ends THEN NoCall ELSE @]
        /\ loc' = [loc EXCEPT ![p] =
                      IF sleeps THEN [Fresh(@) EXCEPT !.delay = job.next_retry_at]
                      ELSE Fresh(@)]
        /\ upd' = [upd EXCEPT ![p] = NoUpd]
        /\ current_task' = Holder(p, (ends /\ ~InSweep(p)) \/ sleeps)

\* a caller invokes runner.run_job(job_id); dlq_store tells whether the runner
\* was constructed with a dead letter store
CallRunJob(p, j, dlq_store) ==
    /\ pc[p] = "idle"
    /\ p \in callers
    /\ current_task = NoTask
    /\ call' = [call EXCEPT ![p] = [op |-> "run_job", job_id |-> j,
                                    dlq_store |-> dlq_store]]
    /\ pc' = [pc EXCEPT ![p] = "rj_get"]
    /\ result' = [result EXCEPT ![p] = "none"]
    /\ current_task' = Holder(p, FALSE)
    /\ UNCHANGED <<backend, callers, jobs, created, dlq, job_id_index, loc, upd,
                   handler_calls, dlq_adds,
                   job_index, dlq_index>>

\* a caller invokes runner.run_job_with_immediate_retry(job_id)
CallRunJobWithImmediateRetry(p, j, dlq_store) ==
    /\ pc[p] = "idle"
    /\ p \in callers
    /\ current_task = NoTask
    /\ call' = [call EXCEPT ![p] = [op |-> "run_job_with_immediate_retry",
                                    job_id |-> j, dlq_store |-> dlq_store]]
    /\ pc' = [pc EXCEPT ![p] = "ir_start"]
    /\ result' = [result EXCEPT ![p] = "none"]
    /\ current_task' = Holder(p, FALSE)
    /\ UNCHANGED <<backend, callers, jobs, created, dlq, job_id_index, loc, upd,
                   handler_calls, dlq_adds,
                   job_index, dlq_index>>

\* run_job_with_immediate_retry: the lookup before the loop
IrStart(p) ==
    /\ pc[p] = "ir_start"
    /\ Sched(p)
    /\ IF Get(call[p].job_id) = NoJob
       THEN /\ pc' = [pc EXCEPT ![p] = IF InSweep(p) THEN "sw_loop" ELSE "idle"]
            /\ result' = [result EXCEPT ![p] = "absent"]
            /\ call' = [call EXCEPT ![p] = NoCall]
            /\ current_task' = Holder(p, ~InSweep(p))
       ELSE /\ pc' = [pc EXCEPT ![p] = "rj_get"]
            /\ current_task' = Holder(p, FALSE)
            /\ UNCHANGED <<result, call,
                   job_index, dlq_index>>
    /\ UNCHANGED <<backend, callers, jobs, created, dlq, job_id_index, loc, upd,
                   handler_calls, dlq_adds,
                   job_index, dlq_index>>

\* run_job with the status check letting a running job through: only absent
\* and terminal jobs are returned unchanged
RjGet_RunsRunning(p) ==
    /\ pc[p] = "rj_get"
    /\ Sched(p)
    /\ LET job == Get(call[p].job_id) IN
       IF job = NoJob \/ job.status \in TerminalStatus
       THEN ReturnFromRunJob(p, job)
       ELSE /\ loc' = [loc EXCEPT ![p] =
                          [Fresh(loc[p]) EXCEPT !.current_attempt = job.attempt_count + 1,
                                        !.max_retries = job.max_retries]]
            /\ upd' = [upd EXCEPT ![p] =
                          [args |-> [NoArgs EXCEPT !.status = RUNNING,
                                        !.attempt_count = job.attempt_count + 1,
                                        !.next_retry_at = NoTime],
                           job |-> NoJob, old_status |-> "none", ret |-> "rj_dispatch"]]
            /\ pc' = [pc EXCEPT ![p] = "update_get"]
            /\ current_task' = Holder(p, FALSE)
            /\ UNCHANGED <<result, call,
                   job_index, dlq_index>>
    /\ UNCHANGED <<backend, callers, jobs, created, dlq, job_id_index,
                   handler_calls, dlq_adds,
                   job_index, dlq_index>>

\* run_job: load the job, return it unless it is queued, else compute the
\* attempt number and start update(status=RUNNING, attempt_count, next_retry_at=None)
RjGet(p) ==
    /\ pc[p] = "rj_get"
    /\ Sched(p)
    /\ LET job == Get(call[p].job_id) IN
       IF job = NoJob \/ job.status # QUEUED
       THEN ReturnFromRunJob(p, job)
       ELSE /\ loc' = [loc EXCEPT ![p] =
                          [Fresh(loc[p]) EXCEPT !.current_attempt = job.attempt_count + 1,
                                        !.max_retries = job.max_retries]]
            /\ upd' = [upd EXCEPT ![p] =
                          [args |-> [NoArgs EXCEPT !.status = RUNNING,
                                        !.attempt_count = job.attempt_count + 1,
                                        !.next_retry_at = NoTime],
                           job |-> NoJob, old_status |-> "none", ret |-> "rj_dispatch"]]
            /\ pc' = [pc EXCEPT ![p] = "update_get"]
            /\ current_task' = Holder(p, FALSE)
            /\ UNCHANGED <<result, call,
                   job_index, dlq_index>>
    /\ UNCHANGED <<backend, callers, jobs, created, dlq, job_id_index,
                   handler_calls, dlq_adds,
                   job_index, dlq_index>>

\* run_job: route to the pipeline handler of the job's type and await it
RjDispatch(p) ==
    /\ pc[p] = "rj_dispatch"
    /\ Sched(p)
    /\ handler_calls[call[p].job_id] < MaxHandlerCalls
    /\ handler_calls' = [handler_calls EXCEPT ![call[p].job_id] = @ + 1]
    /\ pc' = [pc EXCEPT ![p] = "handler"]
    /\ current_task' = NoTask
    /\ UNCHANGED <<backend, callers, jobs, created, dlq, job_id_index, call, loc,
                   upd, result, dlq_adds,
                   job_index, dlq_index>>

\* the arguments of the update that reschedules the job after attempt
\* current_attempt failed with error_msg
RetryArgs(current_attempt, error_msg) ==
    [NoArgs EXCEPT
        !.status = QUEUED,
        !.progress = 0,
        !.last_error = error_msg,
        !.next_retry_at = calculate_retry_delay(current_attempt, RetryBaseDelay,
                                                RetryMaxDelay, RetryBackoffMultiplier)]

\* can_retry with the ceiling off by one: attempt max_retries is retried too
CanRetry_OffByOne(error_msg, current_attempt, max_retries) ==
    /\ is_retryable_error(classify_error(error_msg))
    /\ current_attempt <= max_retries

\* can_retry
CanRetry(error_msg, current_attempt, max_retries) ==
    /\ is_retryable_error(classify_error(error_msg))
    /\ current_attempt < max_retries

\* the handler returns a result: job_store.complete(job_id, result)
HandlerSucceeds(p) ==
    /\ pc[p] = "handler"
    /\ Sched(p)
    /\ upd' = [upd EXCEPT ![p] = [args |-> CompleteArgs, job |-> NoJob,
                                  old_status |-> "none", ret |-> "rj_return_updated"]]
    /\ pc' = [pc EXCEPT ![p] = "update_get"]
    /\ current_task' = Holder(p, FALSE)
    /\ UNCHANGED <<backend, callers, jobs, created, dlq, job_id_index, call, loc,
                   result, handler_calls, dlq_adds,
                   job_index, dlq_index>>

\* the handler raises and run_job has no except clause: the error reaches the
\* caller, the job stays as it was
HandlerRaises_Propagates(p, error_msg) ==
    /\ pc[p] = "handler"
    /\ Sched(p)
    /\ pc' = [pc EXCEPT ![p] = "idle"]
    /\ result' = [result EXCEPT ![p] = "raised"]
    /\ call' = [call EXCEPT ![p] = NoCall]
    /\ loc' = [loc EXCEPT ![p] = Fresh(@)]
    /\ upd' = [upd EXCEPT ![p] = NoUpd]
    /\ current_task' = NoTask
    /\ UNCHANGED <<backend, callers, jobs, created, dlq, job_id_index,
                   handler_calls, dlq_adds,
                   job_index, dlq_index>>

\* the handler raises: classify, then reschedule or go on to the DLQ hand-off
HandlerRaises(p, error_msg) ==
    /\ pc[p] = "handler"
    /\ Sched(p)
    /\ loc' = [loc EXCEPT ![p].error_msg = error_msg]
    /\ IF CanRetry(error_msg, loc[p].current_attempt, loc[p].max_retries)
       THEN /\ upd' = [upd EXCEPT ![p] =
                          [args |-> RetryArgs(loc[p].current_attempt, error_msg),
                           job |-> NoJob, old_status |-> "none", ret |-> "rj_final_get"]]
            /\ pc' = [pc EXCEPT ![p] = "update_get"]
       ELSE /\ pc' = [pc EXCEPT ![p] = "rj_refresh"]
            /\ upd' = upd
    /\ current_task' = Holder(p, FALSE)
    /\ UNCHANGED <<backend, callers, jobs, created, dlq, job_id_index, call,
                   result, handler_calls, dlq_adds,
                   job_index, dlq_index>>

RECURSIVE SumOver(_, _)
SumOver(f, S) ==
    IF S = {} THEN 0
    ELSE LET x == CHOOSE y \in S : TRUE IN f[x] + SumOver(f, S \ {x})

\* the dlq_id (uuid4) of the next entry: never used before
NextDlqId == 1 + SumOver(dlq_adds, DOMAIN dlq_adds)

\* the fields of a job that DeadLetterEntry.from_job copies
JobFields(job) ==
    [f \in {"job_id", "type", "input", "project_id", "document_id",
            "created_by"} |-> job[f]]

\* DeadLetterEntry.from_job as _move_to_dlq calls it from run_job.
\* dlq_created_at is kept as the number of whole hours since that instant,
\* processed_at as set / not set.
DlqEntry(job, error_msg, failure_reason, attempt_count) ==
    [dlq_id |-> NextDlqId,
     original_job_id |-> job.job_id,
     job_type |-> job.type,
     job_input |-> job.input,
     project_id |-> job.project_id,
     document_id |-> job.document_id,
     created_by |-> job.created_by,
     failure_reason |-> failure_reason,
     error_message |-> error_msg,
     attempt_count |-> attempt_count,
     dlq_created_at |-> 0,
     processed |-> FALSE,
     processed_at |-> FALSE,
     requeued_job_id |-> "none"]

\* add that leaves an existing job-id mapping alone
DlqStoreAdd_KeepsFirst(entry) ==
    /\ dlq' = Append(dlq, entry)
    /\ job_id_index' = [job_id_index EXCEPT ![entry.original_job_id] =
                                               IF @ = 0 THEN entry.dlq_id ELSE @]
    /\ dlq_adds' = [dlq_adds EXCEPT ![entry.original_job_id] = @ + 1]
    /\ dlq_index' =
          IF backend = "redis"
          THEN [dlq_index EXCEPT
                   !.unprocessed = IF entry.processed THEN @
                                   ELSE ZAdd(@, entry.dlq_id),
                   !.type[entry.job_type] = ZAdd(@, entry.dlq_id),
                   !.project = IF entry.project_id # NoProject
                               THEN [@ EXCEPT ![entry.project_id] =
                                                 ZAdd(@, entry.dlq_id)]
                               ELSE @]
          ELSE dlq_index

\* DeadLetterStore.add(entry): the entry under its dlq_id and the job-id
\* index; RedisDeadLetterStore also enters the id in the unprocessed index
\* (unless processed), the type index and, if project_id is set, the project
\* index
DlqStoreAdd(entry) ==
    /\ dlq' = Append(dlq, entry)
    /\ job_id_index' = [job_id_index EXCEPT ![entry.original_job_id] = entry.dlq_id]
    /\ dlq_adds' = [dlq_adds EXCEPT ![entry.original_job_id] = @ + 1]
    /\ dlq_index' =
          IF backend = "redis"
          THEN [dlq_index EXCEPT
                   !.unprocessed = IF entry.processed THEN @
                                   ELSE ZAdd(@, entry.dlq_id),
                   !.type[entry.job_type] = ZAdd(@, entry.dlq_id),
                   !.project = IF entry.project_id # NoProject
                               THEN [@ EXCEPT ![entry.project_id] =
                                                 ZAdd(@, entry.dlq_id)]
                               ELSE @]
          ELSE dlq_index

\* the failure_reason always taken from the classifier
DlqReason_Classified(error_msg, current_attempt, job_max_retries) ==
    classify_error(error_msg)

\* the failure_reason run_job passes to _move_to_dlq
DlqReason(error_msg, current_attempt, job_max_retries) ==
    IF current_attempt >= job_max_retries
    THEN "max_retries_exceeded"
    ELSE classify_error(error_msg)

\* run_job, no retry left: reload the job; _move_to_dlq is entered when the
\* job is there and does nothing when the runner has no dlq_store
RjRefresh(p) ==
    /\ pc[p] = "rj_refresh"
    /\ Sched(p)
    /\ LET job == Get(call[p].job_id) IN
       IF job # NoJob /\ call[p].dlq_store
       THEN /\ loc' = [loc EXCEPT ![p].job_present = TRUE,
                                  ![p].job_attempt_count = job.attempt_count,
                                  ![p].job_max_retries = job.max_retries,
                                  ![p].job_fields = JobFields(job)]
            /\ pc' = [pc EXCEPT ![p] = "rj_dlq_add"]
            /\ upd' = upd
       ELSE /\ upd' = [upd EXCEPT ![p] = [args |-> FailArgs(loc[p].error_msg),
                                          job |-> NoJob, old_status |-> "none", ret |-> "rj_final_get"]]
            /\ pc' = [pc EXCEPT ![p] = "update_get"]
            /\ loc' = loc
    /\ current_task' = Holder(p, FALSE)
    /\ UNCHANGED <<backend, callers, jobs, created, dlq, job_id_index, call,
                   result, handler_calls, dlq_adds,
                   job_index, dlq_index>>

\* _move_to_dlq without the add: run_job goes on to job_store.fail with no entry
RjDlqAdd_Skipped(p) ==
    /\ pc[p] = "rj_dlq_add"
    /\ Sched(p)
    /\ upd' = [upd EXCEPT ![p] = [args |-> FailArgs(loc[p].error_msg),
                                  job |-> NoJob, old_status |-> "none", ret |-> "rj_final_get"]]
    /\ pc' = [pc EXCEPT ![p] = "update_get"]
    /\ current_task' = Holder(p, FALSE)
    /\ UNCHANGED <<backend, callers, jobs, created, dlq, job_id_index, dlq_adds,
                   call, loc, result, handler_calls,
                   job_index, dlq_index>>

\* _move_to_dlq: dlq_store.add(entry), then run_job goes on to job_store.fail
RjDlqAdd(p) ==
    /\ pc[p] = "rj_dlq_add"
    /\ Sched(p)
    /\ DlqStoreAdd(DlqEntry(loc[p].job_fields, loc[p].error_msg,
                            DlqReason(loc[p].error_msg, loc[p].current_attempt,
                                      loc[p].job_max_retries),
                            loc[p].job_attempt_count))
    /\ upd' = [upd EXCEPT ![p] = [args |-> FailArgs(loc[p].error_msg),
                                  job |-> NoJob, old_status |-> "none", ret |-> "rj_final_get"]]
    /\ pc' = [pc EXCEPT ![p] = "update_get"]
    /\ current_task' = Holder(p, FALSE)
    /\ UNCHANGED <<backend, callers, jobs, created, call, loc, result,
                   handler_calls, job_index>>

\* run_job: return await self.job_store.get(job_id)
RjFinalGet(p) ==
    /\ pc[p] = "rj_final_get"
    /\ Sched(p)
    /\ ReturnFromRunJob(p, Get(call[p].job_id))
    /\ UNCHANGED <<backend, callers, jobs, created, dlq, job_id_index,
                   handler_calls, dlq_adds,
                   job_index, dlq_index>>

\* run_job: return updated_job, the value complete() returned
RjReturnUpdated(p) ==
    /\ pc[p] = "rj_return_updated"
    /\ Sched(p)
    /\ ReturnFromRunJob(p, upd[p].job)
    /\ UNCHANGED <<backend, callers, jobs, created, dlq, job_id_index,
                   handler_calls, dlq_adds,
                   job_index, dlq_index>>

\* run_job_with_immediate_retry: asyncio.sleep(delay) is over
IrWake(p) ==
    /\ pc[p] = "ir_sleep"
    /\ Sched(p)
    /\ loc[p].delay = 0
    /\ pc' = [pc EXCEPT ![p] = "rj_get"]
    /\ loc' = [loc EXCEPT ![p] = Fresh(@)]
    /\ current_task' = Holder(p, FALSE)
    /\ UNCHANGED <<backend, callers, jobs, created, dlq, job_id_index, call, upd,
                   result, handler_calls, dlq_adds,
                   job_index, dlq_index>>

----------------------------------------------------------------------------
(* Cancellation: an external caller sets the terminal status through the    *)
(* store, job_store.update(job_id, status=CANCELLED)                        *)

CallCancel(p, j) ==
    /\ pc[p] = "idle"
    /\ p \in callers
    /\ current_task = NoTask
    /\ j \in DOMAIN jobs
    /\ jobs[j].status \in {QUEUED, RUNNING}
    /\ call' = [call EXCEPT ![p] = [op |-> "cancel", job_id |-> j,
                                    dlq_store |-> FALSE]]
    /\ upd' = [upd EXCEPT ![p] = [args |-> [NoArgs EXCEPT !.status = CANCELLED],
                                  job |-> NoJob, old_status |-> "none", ret |-> "cancel_done"]]
    /\ pc' = [pc EXCEPT ![p] = "update_get"]
    /\ result' = [result EXCEPT ![p] = "none"]
    /\ current_task' = Holder(p, FALSE)
    /\ UNCHANGED <<backend, callers, jobs, created, dlq, job_id_index, loc,
                   handler_calls, dlq_adds,
                   job_index, dlq_index>>

CancelDone(p) ==
    /\ pc[p] = "cancel_done"
    /\ Sched(p)
    /\ pc' = [pc EXCEPT ![p] = "idle"]
    /\ result' = [result EXCEPT ![p] = upd[p].job.status]
    /\ call' = [call EXCEPT ![p] = NoCall]
    /\ upd' = [upd EXCEPT ![p] = NoUpd]
    /\ current_task' = NoTask
    /\ UNCHANGED <<backend, callers, jobs, created, dlq, job_id_index, loc,
                   handler_calls, dlq_adds,
                   job_index, dlq_index>>

----------------------------------------------------------------------------
(* Direct calls of the JobStore interface: update, start, complete, fail    *)

\* argument lists of the direct update calls made in the model:
\* complete(job_id, output), fail(job_id, error), and update(job_id, status=s)
\* for the two statuses that start, complete and fail do not set
StoreUpdateArgs ==
    {CompleteArgs, FailArgs(<<"Invalid", "API", "key">>)}
    \cup {[NoArgs EXCEPT !.status = st] : st \in {QUEUED, CANCELLED}}

\* a caller invokes job_store.update(job_id, ...) (or complete / fail, which
\* only call update)
CallUpdate(p, j, args) ==
    /\ pc[p] = "idle"
    /\ p \in callers
    /\ current_task = NoTask
    /\ call' = [call EXCEPT ![p] = [op |-> "update", job_id |-> j,
                                    dlq_store |-> FALSE]]
    /\ upd' = [upd EXCEPT ![p] = [args |-> args, job |-> NoJob,
                                  old_status |-> "none", ret |-> "store_done"]]
    /\ pc' = [pc EXCEPT ![p] = "update_get"]
    /\ result' = [result EXCEPT ![p] = "none"]
    /\ current_task' = Holder(p, FALSE)
    /\ UNCHANGED <<backend, callers, jobs, created, job_index, dlq, job_id_index,
                   dlq_index, loc, handler_calls, dlq_adds>>

\* a caller invokes job_store.start(job_id)
CallStart(p, j) ==
    /\ pc[p] = "idle"
    /\ p \in callers
    /\ current_task = NoTask
    /\ call' = [call EXCEPT ![p] = [op |-> "start", job_id |-> j,
                                    dlq_store |-> FALSE]]
    /\ pc' = [pc EXCEPT ![p] = "start_get"]
    /\ result' = [result EXCEPT ![p] = "none"]
    /\ current_task' = Holder(p, FALSE)
    /\ UNCHANGED <<backend, callers, jobs, created, job_index, dlq, job_id_index,
                   dlq_index, loc, upd, handler_calls, dlq_adds>>

\* JobStore.start: get the job; None ends the call; otherwise status and
\* started_at are assigned on the object get returned (the stored object in
\* memory, a copy that is dropped in Redis) and update(status=RUNNING) follows
StartGet(p) ==
    /\ pc[p] = "start_get"
    /\ Sched(p)
    /\ LET j == call[p].job_id IN
       IF Get(j) = NoJob
       THEN /\ pc' = [pc EXCEPT ![p] = "idle"]
            /\ result' = [result EXCEPT ![p] = "absent"]
            /\ call' = [call EXCEPT ![p] = NoCall]
            /\ current_task' = NoTask
            /\ UNCHANGED <<jobs, upd>>
       ELSE /\ jobs' = IF backend = "memory"
                       THEN [jobs EXCEPT ![j].status = RUNNING,
                                         ![j].started_at = TRUE]
                       ELSE jobs
            /\ upd' = [upd EXCEPT ![p] =
                          [args |-> [NoArgs EXCEPT !.status = RUNNING],
                           job |-> NoJob, old_status |-> "none",
                           ret |-> "store_done"]]
            /\ pc' = [pc EXCEPT ![p] = "update_get"]
            /\ current_task' = Holder(p, FALSE)
            /\ UNCHANGED <<result, call>>
    /\ UNCHANGED <<backend, callers, created, job_index, dlq, job_id_index,
                   dlq_index, loc, handler_calls, dlq_adds>>

\* the direct call returns what update returned
StoreCallDone(p) ==
    /\ pc[p] = "store_done"
    /\ Sched(p)
    /\ pc' = [pc EXCEPT ![p] = "idle"]
    /\ result' = [result EXCEPT ![p] = upd[p].job.status]
    /\ call' = [call EXCEPT ![p] = NoCall]
    /\ upd' = [upd EXCEPT ![p] = NoUpd]
    /\ current_task' = NoTask
    /\ UNCHANGED <<backend, callers, jobs, created, job_index, dlq, job_id_index,
                   dlq_index, loc, handler_calls, dlq_adds>>

\* a caller invokes job_store.get(job_id)
CallGet(p, j) ==
    /\ pc[p] = "idle"
    /\ p \in callers
    /\ current_task = NoTask
    /\ call' = [call EXCEPT ![p] = [op |-> "get", job_id |-> j,
                                    dlq_store |-> FALSE]]
    /\ pc' = [pc EXCEPT ![p] = "get"]
    /\ result' = [result EXCEPT ![p] = "none"]
    /\ current_task' = Holder(p, FALSE)
    /\ UNCHANGED <<backend, callers, jobs, created, job_index, dlq, job_id_index,
                   dlq_index, loc, upd, handler_calls, dlq_adds>>

\* JobStore.get: the job, or None
GetDone(p) ==
    /\ pc[p] = "get"
    /\ Sched(p)
    /\ pc' = [pc EXCEPT ![p] = "idle"]
    /\ result' = [result EXCEPT ![p] = Get(call[p].job_id).status]
    /\ call' = [call EXCEPT ![p] = NoCall]
    /\ current_task' = NoTask
    /\ UNCHANGED <<backend, callers, jobs, created, job_index, dlq, job_id_index,
                   dlq_index, loc, upd, handler_calls, dlq_adds>>

\* a caller invokes job_store.delete(job_id)
CallStoreDelete(p, j) ==
    /\ pc[p] = "idle"
    /\ p \in callers
    /\ current_task = NoTask
    /\ call' = [call EXCEPT ![p] = [op |-> "delete", job_id |-> j,
                                    dlq_store |-> FALSE]]
    /\ pc' = [pc EXCEPT ![p] = "del_get"]
    /\ result' = [result EXCEPT ![p] = "none"]
    /\ current_task' = Holder(p, FALSE)
    /\ UNCHANGED <<backend, callers, jobs, created, job_index, dlq, job_id_index,
                   dlq_index, loc, upd, handler_calls, dlq_adds>>

----------------------------------------------------------------------------
(* JobStore.list_by_status *)

\* largest limit passed to list_by_status
MaxLimit == 2

NoStatus == "none"

\* jobs.sort(key=lambda j: j.created_at, reverse=True), as job ids
RECURSIVE SortByCreatedDesc(_)
SortByCreatedDesc(S) ==
    IF S = {} THEN <<>>
    ELSE LET newest == CHOOSE j \in S :
                           \A k \in S : jobs[k].created_at <= jobs[j].created_at
         IN  <<newest>> \o SortByCreatedDesc(S \ {newest})

\* MemoryJobStore.list_by_status: filter all jobs, sort, cut to limit
MemoryListByStatus(status, project_id, limit) ==
    Take(SortByCreatedDesc(
             {j \in DOMAIN jobs :
                 /\ status # NoStatus => jobs[j].status = status
                 /\ project_id # NoProject => jobs[j].project_id = project_id}),
         limit)

\* RedisJobStore.list_by_status, the ids it fetches: the first limit members
\* of the project index if project_id is given, else of the status index if
\* status is given, else the first limit keys that scan_iter yields (any)
RedisListIds(status, project_id, limit) ==
    IF project_id # NoProject
    THEN {Range(ZRevRange(job_index.project[project_id], limit))}
    ELSE IF status # NoStatus
    THEN {Range(ZRevRange(job_index.status[status], limit))}
    ELSE {S \in SUBSET DOMAIN jobs :
             Cardinality(S) = Min(limit, Cardinality(DOMAIN jobs))}

\* RedisJobStore.list_by_status on the ids fetched: get each job, skip the
\* missing ones and those of another status, sort, cut to limit
RedisListByStatus(job_ids, status, limit) ==
    Take(SortByCreatedDesc(
             {j \in job_ids \cap DOMAIN jobs :
                 status # NoStatus => jobs[j].status = status}),
         limit)

\* a caller invokes job_store.list_by_status(status, project_id, limit)
ListByStatus(p, status, project_id, limit) ==
    /\ pc[p] = "idle"
    /\ p \in callers
    /\ current_task = NoTask
    /\ \E job_ids \in RedisListIds(status, project_id, limit) :
          loc' = [loc EXCEPT ![p].listing =
                     [status |-> status, project_id |-> project_id,
                      limit |-> limit,
                      jobs |-> IF backend = "memory"
                               THEN MemoryListByStatus(status, project_id, limit)
                               ELSE RedisListByStatus(job_ids, status, limit)]]
    /\ UNCHANGED <<backend, callers, jobs, created, job_index, dlq, job_id_index,
                   dlq_index, current_task, pc, call, upd, result, handler_calls,
                   dlq_adds>>

----------------------------------------------------------------------------
(* The background sweeps, process_pending_jobs and process_retry_jobs *)

\* page size of process_retry_jobs, standing for limit=100
RetryPageLimit == 2

\* a worker calls process_pending_jobs(max_jobs) or process_retry_jobs() on a
\* runner constructed with or without a dead letter store
CallSweep(p, op, max_jobs, dlq_store) ==
    /\ pc[p] = "idle"
    /\ p \in callers
    /\ current_task = NoTask
    /\ loc' = [loc EXCEPT ![p].sweep =
                  [NoSweep EXCEPT !.op = op, !.dlq_store = dlq_store,
                                  !.limit = IF op = "process_retry_jobs"
                                            THEN RetryPageLimit ELSE max_jobs]]
    /\ pc' = [pc EXCEPT ![p] = "sw_list"]
    /\ result' = [result EXCEPT ![p] = "none"]
    /\ current_task' = Holder(p, FALSE)
    /\ UNCHANGED <<backend, callers, jobs, created, job_index, dlq, job_id_index,
                   dlq_index, call, upd, handler_calls, dlq_adds>>

\* pending = await self.job_store.list_by_status(status=QUEUED, limit=...);
\* now = datetime.utcnow(): the jobs as read, next_retry_at relative to now
SweepList(p) ==
    /\ pc[p] = "sw_list"
    /\ Sched(p)
    /\ \E job_ids \in RedisListIds(QUEUED, NoProject, loc[p].sweep.limit) :
          LET listed == IF backend = "memory"
                        THEN MemoryListByStatus(QUEUED, NoProject,
                                                loc[p].sweep.limit)
                        ELSE RedisListByStatus(job_ids, QUEUED,
                                               loc[p].sweep.limit)
          IN  loc' = [loc EXCEPT ![p].sweep.pending =
                         [i \in 1..Len(listed) |->
                             [job_id |-> listed[i],
                              next_retry_at |-> jobs[listed[i]].next_retry_at]],
                                 ![p].sweep.i = 1]
    /\ pc' = [pc EXCEPT ![p] = "sw_loop"]
    /\ current_task' = Holder(p, FALSE)
    /\ UNCHANGED <<backend, callers, jobs, created, job_index, dlq, job_id_index,
                   dlq_index, call, upd, result, handler_calls, dlq_adds>>

\* the loop body with process_retry_jobs taking every job that has a
\* next_retry_at, elapsed or not
SweepTakes_AnyRetryTime(op, job) ==
    IF op = "process_pending_jobs"
    THEN ~(job.next_retry_at # NoTime /\ job.next_retry_at > 0)
    ELSE job.next_retry_at # NoTime

\* the test of the loop body on the job as read: process_pending_jobs skips
\* a job whose next_retry_at lies ahead, process_retry_jobs takes a job whose
\* next_retry_at is set and not ahead
SweepTakes(op, job) ==
    IF op = "process_pending_jobs"
    THEN ~(job.next_retry_at # NoTime /\ job.next_retry_at > 0)
    ELSE job.next_retry_at # NoTime /\ job.next_retry_at <= 0

\* for job in pending: one pass of the loop, or the return of processed
SweepLoop(p) ==
    /\ pc[p] = "sw_loop"
    /\ Sched(p)
    /\ LET sw == loc[p].sweep IN
       IF sw.i > Len(sw.pending)
       THEN /\ loc' = [loc EXCEPT ![p].sweep =
                          [NoSweep EXCEPT !.op = sw.op, !.ret = sw.processed]]
            /\ pc' = [pc EXCEPT ![p] = "idle"]
            /\ call' = call
            /\ current_task' = NoTask
       ELSE IF SweepTakes(sw.op, sw.pending[sw.i])
       THEN /\ loc' = [loc EXCEPT ![p].sweep.i = sw.i + 1,
                                  ![p].sweep.processed = sw.processed + 1]
            /\ call' = [call EXCEPT ![p] =
                           [op |-> IF sw.op = "process_pending_jobs"
                                   THEN "run_job_with_immediate_retry"
                                   ELSE "run_job",
                            job_id |-> sw.pending[sw.i].job_id,
                            dlq_store |-> sw.dlq_store]]
            /\ pc' = [pc EXCEPT ![p] = IF sw.op = "process_pending_jobs"
                                       THEN "ir_start" ELSE "rj_get"]
            /\ current_task' = Holder(p, FALSE)
       ELSE /\ loc' = [loc EXCEPT ![p].sweep.i = sw.i + 1]
            /\ pc' = pc
            /\ call' = call
            /\ current_task' = Holder(p, FALSE)
    /\ UNCHANGED <<backend, callers, jobs, created, job_index, dlq, job_id_index,
                   dlq_index, upd, result, handler_calls, dlq_adds>>

----------------------------------------------------------------------------
(* DeadLetterStore, as the DLQ routes call it *)

\* most entries ever added in the runs of the dead letter store alone
MaxDlqEntries == 3

\* oldest age of an entry told apart, in hours
MaxAgeHours == 1

\* None, as a dlq entry / a filter / older_than_hours
NoEntry == [dlq_id |-> 0]
NoFilter == "none"
NoHours == -1

NoDlqRet == NoLoc.dlq_ret

\* the default limit of DeadLetterStore.list
DefaultLimit == 100

\* self._entries.get(dlq_id) / GET dlq:<dlq_id>
DlqGetEntry(dlq_id) ==
    IF \E i \in 1..Len(dlq) : dlq[i].dlq_id = dlq_id
    THEN dlq[CHOOSE i \in 1..Len(dlq) : dlq[i].dlq_id = dlq_id]
    ELSE NoEntry

\* DeadLetterStore.get_by_job_id: the entry the job-id index points to
DlqGetByJobId(job_id) ==
    IF job_id_index[job_id] # 0 THEN DlqGetEntry(job_id_index[job_id]) ELSE NoEntry

\* the filters of list and count: processed is None ("none"), True ("true")
\* or False ("false")
Matches(e, processed, job_type, project_id) ==
    /\ processed # NoFilter => e.processed = (processed = "true")
    /\ job_type # NoFilter => e.job_type = job_type
    /\ project_id # NoFilter => e.project_id = project_id

\* seq[offset : offset + limit]
Slice(seq, offset, limit) ==
    SubSeq(seq, offset + 1, Min(offset + limit, Len(seq)))

DlqIds(entries) == [i \in 1..Len(entries) |-> entries[i].dlq_id]

\* MemoryDeadLetterStore.list: filter, newest dlq_created_at first, paginate.
\* Entries are kept in the order of their add, which is that of dlq_created_at.
MemoryDlqList(processed, job_type, project_id, limit, offset) ==
    Slice(Reverse(DlqIds(SelectSeq(dlq,
              LAMBDA e : Matches(e, processed, job_type, project_id)))),
          offset, limit)

\* MemoryDeadLetterStore.count
MemoryDlqCount(processed, job_type, project_id) ==
    Cardinality({i \in 1..Len(dlq) :
                    Matches(dlq[i], processed, job_type, project_id)})

\* the orders in which scan_iter may yield the entry keys
RECURSIVE Perms(_)
Perms(S) ==
    IF S = {} THEN {<<>>}
    ELSE UNION {{<<x>> \o q : q \in Perms(S \ {x})} : x \in S}

\* RedisDeadLetterStore.list, the page of ids it fetches: from the unprocessed
\* index if processed is False, else from the type index if job_type is given,
\* else from the project index if project_id is given, else from a scan
RedisDlqListIds(processed, job_type, project_id, limit, offset) ==
    IF processed = "false"
    THEN {Slice(Reverse(dlq_index.unprocessed), offset, limit)}
    ELSE IF job_type # NoFilter
    THEN {Slice(Reverse(dlq_index.type[job_type]), offset, limit)}
    ELSE IF project_id # NoFilter
    THEN {Slice(Reverse(dlq_index.project[project_id]), offset, limit)}
    ELSE {Slice(q, offset, limit) : q \in Perms(Range(DlqIds(dlq)))}

\* RedisDeadLetterStore.list on the page fetched: get each entry, skip the
\* missing ones and those another filter rejects
RedisDlqList(dlq_ids, processed, job_type, project_id) ==
    SelectSeq(dlq_ids,
              LAMBDA id : /\ DlqGetEntry(id) # NoEntry
                          /\ Matches(DlqGetEntry(id), processed, job_type,
                                     project_id))

\* RedisDeadLetterStore.count: the size of the first index that applies, or
\* the number of entry keys
RedisDlqCount(processed, job_type, project_id) ==
    IF processed = "false" THEN Len(dlq_index.unprocessed)
    ELSE IF job_type # NoFilter THEN Len(dlq_index.type[job_type])
    ELSE IF project_id # NoFilter THEN Len(dlq_index.project[project_id])
    ELSE Len(dlq)

\* what list may return in the store in use, as dlq ids
DlqListResults(processed, job_type, project_id, limit, offset) ==
    IF backend = "memory"
    THEN {MemoryDlqList(processed, job_type, project_id, limit, offset)}
    ELSE {RedisDlqList(dlq_ids, processed, job_type, project_id) :
             dlq_ids \in RedisDlqListIds(processed, job_type, project_id, limit,
                                         offset)}

\* what count returns in the store in use
DlqCountResult(processed, job_type, project_id) ==
    IF backend = "memory"
    THEN MemoryDlqCount(processed, job_type, project_id)
    ELSE RedisDlqCount(processed, job_type, project_id)

\* a DLQ route calls the store: one caller at a time, the call runs to its end
DlqCall(p) ==
    /\ pc[p] = "idle"
    /\ p \in callers
    /\ current_task = NoTask

\* the jobs whose failures are added: their type and project
DlqJobFields(j) ==
    JobFields(NewJob(j, Request(JobTypeOf(j), <<"input", j>>,
                                IF j = "j1" THEN "proj1" ELSE NoProject,
                                <<"doc", j>>, "user1"), 1, 0))

\* dlq_store.add(DeadLetterEntry.from_job(...))
DlqAdd(p, j) ==
    /\ DlqCall(p)
    /\ NextDlqId <= MaxDlqEntries
    /\ LET entry == DlqEntry(DlqJobFields(j), <<"Invalid", "API", "key">>,
                             "permanent_error", 1)
       IN  /\ DlqStoreAdd(entry)
           /\ loc' = [loc EXCEPT ![p].dlq_ret =
                         [NoDlqRet EXCEPT !.op = "add", !.entry = entry]]
    /\ UNCHANGED <<backend, callers, jobs, created, job_index, current_task, pc,
                   call, upd, result, handler_calls>>

\* dlq_store.get(dlq_id)
DlqGet(p, dlq_id) ==
    /\ DlqCall(p)
    /\ loc' = [loc EXCEPT ![p].dlq_ret =
                  [NoDlqRet EXCEPT !.op = "get", !.dlq_id = dlq_id,
                                   !.entry = DlqGetEntry(dlq_id)]]
    /\ UNCHANGED <<backend, callers, jobs, created, job_index, dlq, job_id_index,
                   dlq_index, current_task, pc, call, upd, result, handler_calls,
                   dlq_adds>>

\* dlq_store.get_by_job_id(job_id)
DlqGetByJob(p, job_id) ==
    /\ DlqCall(p)
    /\ loc' = [loc EXCEPT ![p].dlq_ret =
                  [NoDlqRet EXCEPT !.op = "get_by_job_id", !.job_id = job_id,
                                   !.entry = DlqGetByJobId(job_id)]]
    /\ UNCHANGED <<backend, callers, jobs, created, job_index, dlq, job_id_index,
                   dlq_index, current_task, pc, call, upd, result, handler_calls,
                   dlq_adds>>

\* dlq_store.list(processed, job_type, project_id, limit, offset)
DlqList(p, processed, job_type, project_id, limit, offset) ==
    /\ DlqCall(p)
    /\ \E ids \in DlqListResults(processed, job_type, project_id, limit, offset) :
          loc' = [loc EXCEPT ![p].dlq_ret =
                     [NoDlqRet EXCEPT
                         !.op = "list", !.processed = processed,
                         !.job_type = job_type, !.project_id = project_id,
                         !.limit = limit, !.offset = offset, !.ids = ids]]
    /\ UNCHANGED <<backend, callers, jobs, created, job_index, dlq, job_id_index,
                   dlq_index, current_task, pc, call, upd, result, handler_calls,
                   dlq_adds>>

\* dlq_store.count(processed, job_type, project_id)
DlqCountEntries(p, processed, job_type, project_id) ==
    /\ DlqCall(p)
    /\ loc' = [loc EXCEPT ![p].dlq_ret =
                  [NoDlqRet EXCEPT
                      !.op = "count", !.processed = processed,
                      !.job_type = job_type, !.project_id = project_id,
                      !.count = DlqCountResult(processed, job_type, project_id)]]
    /\ UNCHANGED <<backend, callers, jobs, created, job_index, dlq, job_id_index,
                   dlq_index, current_task, pc, call, upd, result, handler_calls,
                   dlq_adds>>

\* processed set without the timestamp
MarkedProcessed_NoTimestamp(e, requeued_job_id) ==
    [e EXCEPT !.processed = TRUE, !.requeued_job_id = requeued_job_id]

\* entry.processed = True; processed_at = utcnow(); requeued_job_id
MarkedProcessed(e, requeued_job_id) ==
    [e EXCEPT !.processed = TRUE, !.processed_at = TRUE,
              !.requeued_job_id = requeued_job_id]

\* dlq_store.mark_processed(dlq_id, requeued_job_id): None when the entry is
\* absent; RedisDeadLetterStore also removes the id from the unprocessed index
DlqStoreMarkProcessed(dlq_id, requeued_job_id) ==
    /\ dlq' = [i \in 1..Len(dlq) |->
                  IF dlq[i].dlq_id = dlq_id
                  THEN MarkedProcessed(dlq[i], requeued_job_id)
                  ELSE dlq[i]]
    /\ dlq_index' = IF DlqGetEntry(dlq_id) # NoEntry /\ backend = "redis"
                    THEN [dlq_index EXCEPT !.unprocessed = ZRem(@, dlq_id)]
                    ELSE dlq_index

\* a DLQ route or a caller of the store calls mark_processed
MarkProcessed(p, dlq_id, requeued_job_id) ==
    /\ DlqCall(p)
    /\ LET entry == DlqGetEntry(dlq_id)
           found == entry # NoEntry
       IN  /\ DlqStoreMarkProcessed(dlq_id, requeued_job_id)
           /\ loc' = [loc EXCEPT ![p].dlq_ret =
                         [NoDlqRet EXCEPT
                             !.op = "mark_processed", !.dlq_id = dlq_id,
                             !.entry = IF found
                                       THEN MarkedProcessed(entry, requeued_job_id)
                                       ELSE NoEntry]]
    /\ UNCHANGED <<backend, callers, jobs, created, job_index, job_id_index,
                   current_task, pc, call, upd, result, handler_calls, dlq_adds>>

\* the store after the entries with the given ids are deleted one by one:
\* each is taken out of the entries, the job-id index loses the key
\* original_job_id of each, and in Redis the id leaves the unprocessed, type
\* and project indices
DeleteEntries(dlq_ids) ==
    LET gone == {i \in 1..Len(dlq) : dlq[i].dlq_id \in dlq_ids}
        jobs_gone == {dlq[i].original_job_id : i \in gone}
        Stays(id) == id \notin dlq_ids
    IN  /\ dlq' = SelectSeq(dlq, LAMBDA e : e.dlq_id \notin dlq_ids)
        /\ job_id_index' = [j \in DOMAIN job_id_index |->
                               IF j \in jobs_gone THEN 0 ELSE job_id_index[j]]
        /\ dlq_index' =
              IF backend = "redis"
              THEN [unprocessed |-> SelectSeq(dlq_index.unprocessed, Stays),
                    type |-> [t \in JobType |->
                                 SelectSeq(dlq_index.type[t], Stays)],
                    project |-> [pr \in Projects |->
                                    SelectSeq(dlq_index.project[pr], Stays)]]
              ELSE dlq_index

\* delete reporting True whether or not the entry was there
DlqDelete_AlwaysTrue(p, dlq_id) ==
    /\ DlqCall(p)
    /\ LET found == DlqGetEntry(dlq_id) # NoEntry
       IN  /\ DeleteEntries(IF found THEN {dlq_id} ELSE {})
           /\ loc' = [loc EXCEPT ![p].dlq_ret =
                         [NoDlqRet EXCEPT !.op = "delete", !.dlq_id = dlq_id,
                                          !.flag = TRUE]]
    /\ UNCHANGED <<backend, callers, jobs, created, job_index, current_task, pc,
                   call, upd, result, handler_calls, dlq_adds>>

\* dlq_store.delete(dlq_id): False when the entry is absent
DlqDelete(p, dlq_id) ==
    /\ DlqCall(p)
    /\ LET found == DlqGetEntry(dlq_id) # NoEntry
       IN  /\ DeleteEntries(IF found THEN {dlq_id} ELSE {})
           /\ loc' = [loc EXCEPT ![p].dlq_ret =
                         [NoDlqRet EXCEPT !.op = "delete", !.dlq_id = dlq_id,
                                          !.flag = found]]
    /\ UNCHANGED <<backend, callers, jobs, created, job_index, current_task, pc,
                   call, upd, result, handler_calls, dlq_adds>>

\* the entries purge deletes: processed ones only if processed_only, and,
\* if older_than_hours is given, only those with dlq_created_at < cutoff =
\* utcnow() - older_than_hours.  An entry created k whole hours before a later
\* instant has k <= age < k + 1, and age = older_than_hours to the microsecond
\* is left out, so dlq_created_at < cutoff iff k >= older_than_hours.
PurgeSelects(e, processed_only, older_than_hours) ==
    /\ processed_only => e.processed
    /\ older_than_hours # NoHours => e.dlq_created_at >= older_than_hours

\* dlq_store.purge(processed_only, older_than_hours): returns the number of
\* entries deleted
Purge(p, processed_only, older_than_hours) ==
    /\ DlqCall(p)
    /\ LET to_delete == {dlq[i].dlq_id : i \in
                            {k \in 1..Len(dlq) :
                                PurgeSelects(dlq[k], processed_only,
                                             older_than_hours)}}
       IN  /\ DeleteEntries(to_delete)
           /\ loc' = [loc EXCEPT ![p].dlq_ret =
                         [NoDlqRet EXCEPT
                             !.op = "purge", !.processed_only = processed_only,
                             !.older_than_hours = older_than_hours,
                             !.count = Cardinality(to_delete)]]
    /\ UNCHANGED <<backend, callers, jobs, created, job_index, current_task, pc,
                   call, upd, result, handler_calls, dlq_adds>>

\* an hour passes: every entry is an hour older (told apart up to
\* MaxAgeHours), every key job:<id> has an hour less to live and is gone when
\* none is left (Redis expires the key; the sorted sets keep the id), and
\* every timer counted in seconds has run out
HourPasses ==
    /\ current_task = NoTask
    /\ \/ \E i \in 1..Len(dlq) : dlq[i].dlq_created_at < MaxAgeHours
       \/ \E j \in StoreJobIds : job_index.ttl[j] > 0
    /\ dlq' = [i \in 1..Len(dlq) |->
                  [dlq[i] EXCEPT !.dlq_created_at = Min(@ + 1, MaxAgeHours)]]
    /\ jobs' = [j \in {k \in DOMAIN jobs : job_index.ttl[k] # 1} |->
                   [jobs[j] EXCEPT !.next_retry_at = Min(@, 0)]]
    /\ job_index' = [job_index EXCEPT
                        !.ttl = [j \in StoreJobIds |->
                                    IF @[j] > 1 THEN @[j] - 1 ELSE NoTime]]
    /\ loc' = [p \in Procs |-> [loc[p] EXCEPT !.delay = Min(@, 0)]]
    /\ upd' = [p \in Procs |->
                  [upd[p] EXCEPT
                      !.args.next_retry_at = Min(@, 0),
                      !.job = IF @ = NoJob THEN @
                              ELSE [@ EXCEPT !.next_retry_at = Min(@, 0)]]]
    /\ UNCHANGED <<backend, callers, created, job_id_index, dlq_index,
                   current_task, pc, call, result, handler_calls, dlq_adds>>

----------------------------------------------------------------------------
(* The DLQ routes that requeue or acknowledge an entry: POST                *)
(* /{dlq_id}/retry, /{dlq_id}/retry-and-run and /{dlq_id}/acknowledge       *)

DlqRouteOps == {"retry", "retry_and_run", "acknowledge"}

\* a client posts to one of the three routes
CallDlqRoute(p, op, dlq_id) ==
    /\ pc[p] = "idle"
    /\ p \in callers
    /\ current_task = NoTask
    /\ loc' = [loc EXCEPT ![p].dlq_ret =
                  [NoDlqRet EXCEPT !.op = op, !.dlq_id = dlq_id]]
    /\ pc' = [pc EXCEPT ![p] = "dr_get"]
    /\ result' = [result EXCEPT ![p] = "none"]
    /\ current_task' = Holder(p, FALSE)
    /\ UNCHANGED <<backend, callers, jobs, created, job_index, dlq, job_id_index,
                   dlq_index, call, upd, handler_calls, dlq_adds>>

\* entry = await dlq_store.get(dlq_id); NotFoundError if there is none,
\* BadRequestError if entry.processed
DrGet(p) ==
    /\ pc[p] = "dr_get"
    /\ Sched(p)
    /\ LET entry == DlqGetEntry(loc[p].dlq_ret.dlq_id) IN
       IF entry = NoEntry \/ entry.processed
       THEN /\ result' = [result EXCEPT ![p] = IF entry = NoEntry
                                               THEN "not_found"
                                               ELSE "bad_request"]
            /\ pc' = [pc EXCEPT ![p] = "idle"]
            /\ loc' = loc
            /\ current_task' = NoTask
       ELSE /\ loc' = [loc EXCEPT ![p].dlq_ret.entry = entry]
            /\ pc' = [pc EXCEPT ![p] = IF loc[p].dlq_ret.op = "acknowledge"
                                       THEN "dr_mark" ELSE "dr_create"]
            /\ result' = result
            /\ current_task' = Holder(p, FALSE)
    /\ UNCHANGED <<backend, callers, jobs, created, job_index, dlq, job_id_index,
                   dlq_index, call, upd, handler_calls, dlq_adds>>

\* new_job = await job_store.create(job_type=entry.job_type, ...) under a
\* fresh id, max_retries from the request or the settings
DrCreate(p, j, max_retries) ==
    /\ pc[p] = "dr_create"
    /\ Sched(p)
    /\ LET entry == loc[p].dlq_ret.entry IN
       JobStoreCreate(j, Request(entry.job_type, entry.job_input,
                                 entry.project_id, entry.document_id,
                                 entry.created_by), max_retries)
    /\ loc' = [loc EXCEPT ![p].dlq_ret.job_id = j]
    /\ pc' = [pc EXCEPT ![p] = "dr_mark"]
    /\ current_task' = Holder(p, FALSE)
    /\ UNCHANGED <<backend, callers, dlq, job_id_index, dlq_index, call, upd,
                   result, handler_calls, dlq_adds>>

\* await dlq_store.mark_processed(dlq_id, requeued_job_id=new_job.job_id), or
\* with no requeued_job_id from acknowledge; retry-and-run goes on to
\* runner.run_job_with_immediate_retry(new_job.job_id)
DrMark(p) ==
    /\ pc[p] = "dr_mark"
    /\ Sched(p)
    /\ DlqStoreMarkProcessed(loc[p].dlq_ret.dlq_id, loc[p].dlq_ret.job_id)
    /\ IF loc[p].dlq_ret.op = "retry_and_run"
       THEN /\ call' = [call EXCEPT ![p] =
                           [op |-> "run_job_with_immediate_retry",
                            job_id |-> loc[p].dlq_ret.job_id,
                            dlq_store |-> TRUE]]
            /\ pc' = [pc EXCEPT ![p] = "ir_start"]
            /\ result' = result
            /\ current_task' = Holder(p, FALSE)
       ELSE /\ call' = call
            /\ pc' = [pc EXCEPT ![p] = "idle"]
            /\ result' = [result EXCEPT ![p] =
                             IF loc[p].dlq_ret.op = "acknowledge"
                             THEN "acknowledged" ELSE "retried"]
            /\ current_task' = NoTask
    /\ UNCHANGED <<backend, callers, jobs, created, job_index, job_id_index, loc,
                   upd, handler_calls, dlq_adds>>

----------------------------------------------------------------------------
(* Deletion of a job: the DELETE /jobs/{job_id} route and JobStore.delete   *)

\* a caller requests DELETE /jobs/{job_id}
CallDelete(p, j) ==
    /\ pc[p] = "idle"
    /\ p \in callers
    /\ current_task = NoTask
    /\ call' = [call EXCEPT ![p] = [op |-> "delete_job", job_id |-> j,
                                    dlq_store |-> FALSE]]
    /\ pc' = [pc EXCEPT ![p] = "del_check"]
    /\ result' = [result EXCEPT ![p] = "none"]
    /\ current_task' = Holder(p, FALSE)
    /\ UNCHANGED <<backend, callers, jobs, created, job_index, dlq, job_id_index,
                   dlq_index, loc, upd, handler_calls, dlq_adds>>

\* delete_job: get the job; NotFoundError when absent, BadRequestError when
\* it is queued or running, else go on to job_store.delete
DelCheck(p) ==
    /\ pc[p] = "del_check"
    /\ Sched(p)
    /\ LET job == Get(call[p].job_id)
           refused == job = NoJob \/ job.status \in {QUEUED, RUNNING}
       IN  /\ pc' = [pc EXCEPT ![p] = IF refused THEN "idle" ELSE "del_get"]
           /\ result' = [result EXCEPT ![p] =
                             IF job = NoJob THEN "not_found"
                             ELSE IF refused THEN "conflict" ELSE @]
           /\ call' = [call EXCEPT ![p] = IF refused THEN NoCall ELSE @]
           /\ current_task' = Holder(p, refused)
    /\ UNCHANGED <<backend, callers, jobs, created, job_index, dlq, job_id_index,
                   dlq_index, loc, upd, handler_calls, dlq_adds>>

\* JobStore.delete.  MemoryJobStore: remove the id if present.  RedisJobStore:
\* get the job, return False when absent, else keep it for the removal.
DelGet(p) ==
    /\ pc[p] = "del_get"
    /\ Sched(p)
    /\ LET j == call[p].job_id IN
       IF Get(j) = NoJob
       THEN /\ pc' = [pc EXCEPT ![p] = "idle"]
            /\ result' = [result EXCEPT ![p] = "not_deleted"]
            /\ call' = [call EXCEPT ![p] = NoCall]
            /\ current_task' = NoTask
            /\ UNCHANGED <<jobs, upd>>
       ELSE IF backend = "memory"
       THEN /\ jobs' = [k \in DOMAIN jobs \ {j} |-> jobs[k]]
            /\ pc' = [pc EXCEPT ![p] = "idle"]
            /\ result' = [result EXCEPT ![p] = "deleted"]
            /\ call' = [call EXCEPT ![p] = NoCall]
            /\ current_task' = NoTask
            /\ upd' = upd
       ELSE /\ upd' = [upd EXCEPT ![p].job = jobs[j]]
            /\ pc' = [pc EXCEPT ![p] = "del_remove"]
            /\ current_task' = Holder(p, FALSE)
            /\ UNCHANGED <<jobs, result, call>>
    /\ UNCHANGED <<backend, callers, created, job_index, dlq, job_id_index,
                   dlq_index, loc, handler_calls, dlq_adds>>

\* RedisJobStore.delete: zrem from the index of the status read and from the
\* project index, then delete the key; True when the key was there
DelRemove(p) ==
    /\ pc[p] = "del_remove"
    /\ Sched(p)
    /\ LET j == call[p].job_id
           job == upd[p].job
       IN  /\ job_index' =
                 [job_index EXCEPT
                     !.status[job.status] = ZRem(@, j),
                     !.project = IF job.project_id # NoProject
                                 THEN [@ EXCEPT ![job.project_id] = ZRem(@, j)]
                                 ELSE @,
                     !.ttl[j] = NoTime]
           /\ jobs' = [k \in DOMAIN jobs \ {j} |-> jobs[k]]
           /\ result' = [result EXCEPT ![p] =
                             IF j \in DOMAIN jobs THEN "deleted" ELSE "not_deleted"]
    /\ pc' = [pc EXCEPT ![p] = "idle"]
    /\ call' = [call EXCEPT ![p] = NoCall]
    /\ upd' = [upd EXCEPT ![p] = NoUpd]
    /\ current_task' = NoTask
    /\ UNCHANGED <<backend, callers, created, dlq, job_id_index, dlq_index, loc,
                   handler_calls, dlq_adds>>

----------------------------------------------------------------------------
(* Time *)

Age(t) == IF t > 0 THEN t - 1 ELSE t

AgeJob(job) == IF job = NoJob THEN job ELSE [job EXCEPT !.next_retry_at = Age(@)]

\* one second passes
Tick ==
    /\ \/ \E j \in DOMAIN jobs : jobs[j].next_retry_at > 0
       \/ \E p \in Procs : \/ loc[p].delay > 0
                           \/ upd[p].args.next_retry_at > 0
                           \/ (upd[p].job # NoJob /\ upd[p].job.next_retry_at > 0)
    /\ jobs' = [j \in DOMAIN jobs |-> AgeJob(jobs[j])]
    /\ loc' = [p \in Procs |-> [loc[p] EXCEPT !.delay = Age(@)]]
    /\ upd' = [p \in Procs |-> [upd[p] EXCEPT !.args.next_retry_at = Age(@),
                                              !.job = AgeJob(@)]]
    /\ UNCHANGED <<backend, callers, created, dlq, job_id_index, current_task, pc,
                   call, result, handler_calls, dlq_adds,
                   job_index, dlq_index>>

----------------------------------------------------------------------------

\* a step of a task inside the runner
RunnerStep(p) ==
    \/ UpdateGet(p)
    \/ UpdateSet(p)
    \/ IrStart(p)
    \/ RjGet(p)
    \/ RjDispatch(p)
    \/ HandlerSucceeds(p)
    \/ \E e \in HandlerErrors : HandlerRaises(p, e)
    \/ RjRefresh(p)
    \/ RjDlqAdd(p)
    \/ RjFinalGet(p)
    \/ RjReturnUpdated(p)
    \/ IrWake(p)

TaskStep(p) == RunnerStep(p) \/ CancelDone(p)

Next ==
    \/ \E j \in JobIds, m \in 0..MaxRetriesBound : CreateJob(j, m)
    \/ \E p \in Procs, j \in JobIds, d \in BOOLEAN : CallRunJob(p, j, d)
    \/ \E p \in Procs, j \in JobIds, d \in BOOLEAN :
          CallRunJobWithImmediateRetry(p, j, d)
    \/ \E p \in Procs, j \in JobIds : CallCancel(p, j)
    \/ \E p \in Procs : TaskStep(p)
    \/ Tick

Spec == Init /\ [][Next]_vars

\* deployments without two run_job executions racing on one job: the in-memory
\* store (whose calls never suspend), or a single caller
InitNoRace == Init /\ (backend = "memory" \/ callers = {"p1"})

\* a single caller: the calls made to the stores follow one another
InitOneCaller == Init /\ callers = {"p1"}

\* run_job and cancellation only, every interleaving, both stores
RunJobStep(p) ==
    \/ UpdateGet(p)
    \/ UpdateSet(p)
    \/ RjGet(p)
    \/ RjDispatch(p)
    \/ HandlerSucceeds(p)
    \/ \E e \in HandlerErrors : HandlerRaises(p, e)
    \/ RjRefresh(p)
    \/ RjDlqAdd(p)
    \/ RjFinalGet(p)
    \/ RjReturnUpdated(p)
    \/ CancelDone(p)

NextRunJob ==
    \/ \E j \in JobIds, m \in 0..MaxRetriesBound : CreateJob(j, m)
    \/ \E p \in Procs, j \in JobIds, d \in BOOLEAN : CallRunJob(p, j, d)
    \/ \E p \in Procs, j \in JobIds : CallCancel(p, j)
    \/ \E p \in Procs : RunJobStep(p)
    \/ Tick

SpecRunJob == Init /\ [][NextRunJob]_vars

\* the JobStore interface called directly (update, start, complete, fail)
\* next to run_job, on a runner with a dead letter store
StoreStep(p) ==
    \/ UpdateGet(p)
    \/ UpdateSet(p)
    \/ StartGet(p)
    \/ StoreCallDone(p)
    \/ RjGet(p)
    \/ RjDispatch(p)
    \/ HandlerSucceeds(p)
    \/ \E e \in HandlerErrors : HandlerRaises(p, e)
    \/ RjRefresh(p)
    \/ RjDlqAdd(p)
    \/ RjFinalGet(p)
    \/ RjReturnUpdated(p)

NextStore ==
    \/ \E j \in JobIds, m \in 0..MaxRetriesBound : CreateJob(j, m)
    \/ \E p \in Procs, j \in JobIds : CallRunJob(p, j, TRUE)
    \/ \E p \in Procs, j \in JobIds, a \in StoreUpdateArgs : CallUpdate(p, j, a)
    \/ \E p \in Procs, j \in JobIds : CallStart(p, j)
    \/ \E p \in Procs : StoreStep(p)
    \/ Tick

SpecStore == InitNoRace /\ [][NextStore]_vars

\* jobs of several projects are created, updated and listed by one caller
\* at a time
ListJobIds == {"j1", "j2"}

ListRequests ==
    {Request("qna", <<"input">>, pr, <<"doc">>, "user1") :
        pr \in {NoProject, "proj1"}}

ListStep(p) ==
    \/ UpdateGet(p)
    \/ UpdateSet(p)
    \/ StoreCallDone(p)

NextList ==
    \/ \E j \in ListJobIds, r \in ListRequests : Create(j, r, 0)
    \/ \E p \in Procs, j \in ListJobIds, a \in {CompleteArgs} :
          CallUpdate(p, j, a)
    \/ \E p \in Procs, st \in {NoStatus, QUEUED, SUCCEEDED},
          pr \in {NoProject, "proj1"}, n \in 1..MaxLimit :
          ListByStatus(p, st, pr, n)
    \/ \E p \in Procs : ListStep(p)

SpecList == InitNoRace /\ [][NextList]_vars

\* the dead letter store alone, called by the DLQ routes one call at a time
DlqJobIds == {"j1", "j2"}

DlqFilters ==
    {<<pf, tf, prf>> : pf \in {NoFilter, "true", "false"}, tf \in {NoFilter, "qna"},
                       prf \in {NoFilter, "proj1"}}

NextDlqStore ==
    \/ \E p \in Procs, j \in DlqJobIds : DlqAdd(p, j)
    \/ \E p \in Procs, id \in 1..(MaxDlqEntries + 1) : DlqGet(p, id)
    \/ \E p \in Procs, j \in StoreJobIds : DlqGetByJob(p, j)
    \/ \E p \in Procs, id \in 1..(MaxDlqEntries + 1) : MarkProcessed(p, id, "none")
    \/ \E p \in Procs, id \in 1..(MaxDlqEntries + 1) : DlqDelete(p, id)
    \/ \E p \in Procs, po \in BOOLEAN, h \in {NoHours} \cup 0..MaxAgeHours :
          Purge(p, po, h)
    \/ HourPasses

SpecDlqStore == InitOneCaller /\ [][NextDlqStore]_vars

\* the dead letter store listed and counted, between adds, mark_processed
\* and delete
NextDlqQuery ==
    \/ \E p \in Procs, j \in DlqJobIds : DlqAdd(p, j)
    \/ \E p \in Procs, id \in 1..MaxDlqEntries : MarkProcessed(p, id, "none")
    \/ \E p \in Procs, id \in 1..MaxDlqEntries : DlqDelete(p, id)
    \/ \E p \in Procs, f \in DlqFilters,
          page \in {<<DefaultLimit, 0>>, <<1, 0>>, <<1, 1>>} :
          DlqList(p, f[1], f[2], f[3], page[1], page[2])
    \/ \E p \in Procs, f \in DlqFilters : DlqCountEntries(p, f[1], f[2], f[3])

SpecDlqQuery == InitOneCaller /\ [][NextDlqQuery]_vars

\* one caller uses both stores and the runner, with ids that were never
\* created or are gone as well as with live ones
AbsentStep(p) ==
    \/ RunnerStep(p)
    \/ StoreCallDone(p)
    \/ GetDone(p)
    \/ DelGet(p)
    \/ DelRemove(p)

NextAbsent ==
    \/ \E j \in JobIds, m \in 0..MaxRetriesBound : CreateJob(j, m)
    \/ \E p \in Procs, j \in JobIds : CallRunJob(p, j, TRUE)
    \/ \E p \in Procs, j \in JobIds : CallRunJobWithImmediateRetry(p, j, TRUE)
    \/ \E p \in Procs, j \in JobIds : CallGet(p, j)
    \/ \E p \in Procs, j \in JobIds : CallUpdate(p, j, CompleteArgs)
    \/ \E p \in Procs, j \in JobIds : CallStoreDelete(p, j)
    \/ \E p \in Procs, id \in 1..2 : DlqGet(p, id)
    \/ \E p \in Procs, j \in JobIds : DlqGetByJob(p, j)
    \/ \E p \in Procs, id \in 1..2 : MarkProcessed(p, id, "none")
    \/ \E p \in Procs, id \in 1..2 : DlqDelete(p, id)
    \/ \E p \in Procs : AbsentStep(p)
    \/ Tick

SpecAbsent == InitOneCaller /\ [][NextAbsent]_vars

\* jobs are created and updated over the hours, one call at a time
NextTtl ==
    \/ \E j \in ListJobIds, r \in ListRequests : Create(j, r, 0)
    \/ \E p \in Procs, j \in ListJobIds, a \in StoreUpdateArgs :
          CallUpdate(p, j, a)
    \/ \E p \in Procs : ListStep(p)
    \/ HourPasses

SpecTtl == InitOneCaller /\ [][NextTtl]_vars

\* create, update and delete called on the job store by concurrent tasks
IndexStep(p) ==
    \/ UpdateGet(p)
    \/ UpdateSet(p)
    \/ StoreCallDone(p)
    \/ DelGet(p)
    \/ DelRemove(p)

NextIndex ==
    \/ \E j \in JobIds, m \in 0..MaxRetriesBound : CreateJob(j, m)
    \/ \E p \in Procs, j \in JobIds, a \in StoreUpdateArgs : CallUpdate(p, j, a)
    \/ \E p \in Procs, j \in JobIds : CallStoreDelete(p, j)
    \/ \E p \in Procs : IndexStep(p)

SpecIndex == Init /\ [][NextIndex]_vars

\* run_job, cancellation and the delete route
DeleteStep(p) ==
    \/ RunJobStep(p)
    \/ DelCheck(p)
    \/ DelGet(p)
    \/ DelRemove(p)

NextDelete ==
    \/ \E j \in JobIds, m \in 0..MaxRetriesBound : CreateJob(j, m)
    \/ \E p \in Procs, j \in JobIds : CallRunJob(p, j, TRUE)
    \/ \E p \in Procs, j \in JobIds : CallCancel(p, j)
    \/ \E p \in Procs, j \in JobIds : CallDelete(p, j)
    \/ \E p \in Procs : DeleteStep(p)
    \/ Tick

SpecDelete == Init /\ [][NextDelete]_vars

\* the runner alone: jobs are created and run, nothing else touches the stores
NextRunners ==
    \/ \E j \in JobIds, m \in 0..MaxRetriesBound : CreateJob(j, m)
    \/ \E p \in Procs, j \in JobIds, d \in BOOLEAN : CallRunJob(p, j, d)
    \/ \E p \in Procs, j \in JobIds, d \in BOOLEAN :
          CallRunJobWithImmediateRetry(p, j, d)
    \/ \E p \in Procs : RunnerStep(p)
    \/ Tick

SpecRunners == Init /\ [][NextRunners]_vars

SpecNoRace == InitNoRace /\ [][Next]_vars

\* the same, every runner being constructed with a dead letter store
NextDlq ==
    \/ \E j \in JobIds, m \in 0..MaxRetriesBound : CreateJob(j, m)
    \/ \E p \in Procs, j \in JobIds : CallRunJob(p, j, TRUE)
    \/ \E p \in Procs, j \in JobIds : CallRunJobWithImmediateRetry(p, j, TRUE)
    \/ \E p \in Procs, j \in JobIds : CallCancel(p, j)
    \/ \E p \in Procs : TaskStep(p)
    \/ Tick

SpecDlqNoRace == InitNoRace /\ [][NextDlq]_vars

\* every runner constructed with a dead letter store, any deployment
SpecDlq == Init /\ [][NextDlq]_vars

\* the state after construction, with the locals of the callers given
InitLocals(l) ==
    /\ backend \in Backends
    /\ callers = {"p1"}
    /\ jobs = <<>>
    /\ created = {}
    /\ job_index = EmptyJobIndex
    /\ dlq = <<>>
    /\ job_id_index = [j \in StoreJobIds |-> 0]
    /\ dlq_index = EmptyDlqIndex
    /\ current_task = NoTask
    /\ pc = [p \in Procs |-> "idle"]
    /\ call = [p \in Procs |-> NoCall]
    /\ loc = l
    /\ upd = [p \in Procs |-> NoUpd]
    /\ result = [p \in Procs |-> "none"]
    /\ handler_calls = [j \in StoreJobIds |-> 0]
    /\ dlq_adds = [j \in StoreJobIds |-> 0]

\* words of the error messages classified: keywords of every category, some
\* capitalised, and words that belong to none
ErrorWords ==
    { "Timeout", "timed", "out", "invalid_input", "Invalid", "API", "key",
      "input", "Input", "missing", "Required", "503", "rate", "limit", "error" }

MaxWords == 3

RECURSIVE WordSeqs(_)
WordSeqs(n) ==
    IF n = 0 THEN {<<>>}
    ELSE LET shorter == WordSeqs(n - 1)
         IN  shorter \cup {Append(m, w) : m \in {x \in shorter : Len(x) = n - 1},
                                          w \in ErrorWords}

ErrorMessages == WordSeqs(MaxWords) \ {NoError}

\* failure_reason = classify_error(error_msg) and the is_retryable_error
\* test of can_retry, on the message the caller holds
ClassifyError(p) ==
    /\ pc[p] = "idle"
    /\ loc[p].error_msg # NoError
    /\ loc[p].failure_reason = "none"
    /\ loc' = [loc EXCEPT
                  ![p].failure_reason = classify_error(loc[p].error_msg),
                  ![p].retryable =
                      is_retryable_error(classify_error(loc[p].error_msg))]
    /\ UNCHANGED <<backend, callers, jobs, created, job_index, dlq, job_id_index,
                   dlq_index, current_task, pc, call, upd, result, handler_calls,
                   dlq_adds>>

InitClassify ==
    \E m \in ErrorMessages :
        InitLocals([p \in Procs |-> [NoLoc EXCEPT !.error_msg = m]])

NextClassify == \E p \in Procs : ClassifyError(p)

SpecClassify == InitClassify /\ [][NextClassify]_vars

\* arguments of calculate_retry_delay: attempt is 1-based, the delays and the
\* multiplier range over the settings a runner can be constructed with
BackoffInputs ==
    [attempt : 1..(MaxRetriesBound + 1), base_delay : 0..RetryBaseDelay,
     max_delay : 0..RetryMaxDelay, multiplier : 1..RetryBackoffMultiplier,
     delay : {NoTime}]

\* delay = calculate_retry_delay(attempt, base_delay, max_delay, multiplier)
CalculateRetryDelay(p) ==
    /\ pc[p] = "idle"
    /\ loc[p].backoff.attempt >= 1
    /\ loc[p].backoff.delay = NoTime
    /\ loc' = [loc EXCEPT ![p].backoff.delay =
                  calculate_retry_delay(loc[p].backoff.attempt,
                                        loc[p].backoff.base_delay,
                                        loc[p].backoff.max_delay,
                                        loc[p].backoff.multiplier)]
    /\ UNCHANGED <<backend, callers, jobs, created, job_index, dlq, job_id_index,
                   dlq_index, current_task, pc, call, upd, result, handler_calls,
                   dlq_adds>>

InitBackoff ==
    \E b \in BackoffInputs :
        InitLocals([p \in Procs |-> [NoLoc EXCEPT !.backoff = b]])

\* the function on its own and inside run_job, one caller
NextBackoff ==
    \/ \E p \in Procs : CalculateRetryDelay(p)
    \/ \E j \in JobIds, m \in 0..(MaxRetriesBound + 1) : CreateJob(j, m)
    \/ \E p \in Procs, j \in JobIds, d \in BOOLEAN : CallRunJob(p, j, d)
    \/ \E p \in Procs, j \in JobIds : CallCancel(p, j)
    \/ \E p \in Procs : RunJobStep(p)
    \/ Tick

SpecBackoff == InitBackoff /\ [][NextBackoff]_vars

\* the sweeps of one worker over jobs that the document upload route has run
\* before (run_job without a dead letter store)
SweepJobIds == {"j1", "j2"}

SweepStep(p) ==
    \/ RunnerStep(p)
    \/ SweepList(p)
    \/ SweepLoop(p)

NextSweep ==
    \/ \E j \in SweepJobIds, m \in 0..MaxRetriesBound : CreateJob(j, m)
    \/ \E p \in Procs, j \in SweepJobIds : CallRunJob(p, j, FALSE)
    \/ \E p \in Procs, n \in 1..MaxLimit :
          CallSweep(p, "process_pending_jobs", n, TRUE)
    \/ \E p \in Procs : CallSweep(p, "process_retry_jobs", 0, TRUE)
    \/ \E p \in Procs : SweepStep(p)
    \/ Tick

SpecSweep == InitOneCaller /\ [][NextSweep]_vars

\* the DLQ routes on the entry of one failed job, posted by any callers
DlqRouteStep(p) ==
    \/ RunnerStep(p)
    \/ DrGet(p)
    \/ \E j \in StoreJobIds \ {"j1"}, m \in {0, 2} : DrCreate(p, j, m)
    \/ DrMark(p)

\* the failure of job j enters the dead letter store, once
DlqAddOnce(p, j) == dlq_adds[j] = 0 /\ DlqAdd(p, j)

\* the dlq_id the requests name: that of the entry added first
RouteDlqId == 1

NextDlqRoutes ==
    \/ \E p \in Procs : DlqAddOnce(p, "j1")
    \/ \E p \in Procs, op \in DlqRouteOps : CallDlqRoute(p, op, RouteDlqId)
    \/ \E p \in Procs : DlqRouteStep(p)
    \/ Tick

SpecDlqRoutes == Init /\ [][NextDlqRoutes]_vars

SpecDlqRoutesNoRace == InitNoRace /\ [][NextDlqRoutes]_vars

\* a worker that calls process_retry_jobs again and again, beside the upload
\* route, over more jobs than the page of the sweep holds
RetrySweepJobIds == StoreJobIds

\* the jobs a client runs through the document upload route
RouteRunJobIds == {"j1"}

\* process_retry_jobs awaits run_job itself, never the immediate retry
RetrySweepStep(p) ==
    \/ UpdateGet(p)
    \/ UpdateSet(p)
    \/ RjGet(p)
    \/ RjDispatch(p)
    \/ HandlerSucceeds(p)
    \/ \E e \in HandlerErrors : HandlerRaises(p, e)
    \/ RjRefresh(p)
    \/ RjDlqAdd(p)
    \/ RjFinalGet(p)
    \/ RjReturnUpdated(p)
    \/ SweepList(p)
    \/ SweepLoop(p)

NextRetrySweep ==
    \/ \E j \in RetrySweepJobIds : CreateJob(j, MaxRetriesBound)
    \/ \E p \in Procs, j \in RouteRunJobIds : CallRunJob(p, j, FALSE)
    \/ \E p \in Procs : CallSweep(p, "process_retry_jobs", 0, TRUE)
    \/ \E p \in Procs : RetrySweepStep(p)
    \/ Tick

SpecRetrySweep == InitOneCaller /\ [][NextRetrySweep]_vars

\* the worker calls process_retry_jobs whenever it is free again, every task
\* goes on (every handler call returns), and time advances
RetrySweepFairness ==
    /\ \A p \in Procs : SF_vars(CallSweep(p, "process_retry_jobs", 0, TRUE))
    /\ \A p \in Procs : WF_vars(RetrySweepStep(p))
    /\ WF_vars(Tick)

FairSpecRetrySweep == SpecRetrySweep /\ RetrySweepFairness

\* a task that is ready again and again eventually takes its step (the event
\* loop runs every ready coroutine whenever the running one suspends, and
\* every handler call returns), and time advances
Fairness ==
    /\ \A p \in Procs : SF_vars(TaskStep(p))
    /\ WF_vars(Tick)

FairSpec == InitNoRace /\ [][Next]_vars /\ Fairness

----------------------------------------------------------------------------
(* Claims *)

\* tasks inside run_job on job j that have taken the transition to running
\* for their attempt and not yet finished with the handler
InAttempt(j) ==
    {p \in Procs : call[p].job_id = j /\ pc[p] \in {"rj_dispatch", "handler"}}

\* C1: two run_job executions on one job that both read it as queued do not
\* both win the transition to running: no two tasks execute the handler for
\* the same attempt of a job, and the stored attempt_count is the number of
\* handler executions started plus the attempts about to start theirs.
C1_OneWinnerPerAttempt ==
    \A j \in DOMAIN jobs :
        /\ \A p, q \in InAttempt(j) :
              p # q => loc[p].current_attempt # loc[q].current_attempt
        /\ jobs[j].attempt_count =
              handler_calls[j]
              + Cardinality({p \in InAttempt(j) : pc[p] = "rj_dispatch"})

\* number of DLQ entries whose original_job_id is j
DlqCount(j) == Cardinality({i \in 1..Len(dlq) : dlq[i].original_job_id = j})

\* error_msg is the message of a raised error and is classified retryable
Retryable(error_msg) ==
    error_msg # NoError /\ is_retryable_error(classify_error(error_msg))

\* task p finishes, in this step, the JobStore.update it was executing
UpdateReturns(p) == pc[p] \in {"update_get", "update_set"} /\ pc'[p] = upd[p].ret

\* C2: retry monotonicity of a job with max_retries = M >= 1 whose handler
\* fails with a retryable error.  (a) The update that follows a run_job call
\* made on the queued job stores attempt_count + 1.  (b) A failure of attempt
\* k < M computes a next_retry_at later than the instant of the failure, and
\* the update that ends the attempt leaves the job queued with that
\* next_retry_at.  (c) The failure of attempt M ends with the job failed,
\* attempt_count = M and exactly one DLQ entry for the job.
C2_Step(p) ==
    LET j == call[p].job_id
        M == loc[p].max_retries
        k == loc[p].current_attempt
    IN  /\ (UpdateReturns(p) /\ upd[p].ret = "rj_dispatch" /\ j \in DOMAIN jobs)
              => /\ jobs'[j].attempt_count = jobs[j].attempt_count + 1
                 /\ jobs'[j].attempt_count = k
        /\ (pc[p] = "handler" /\ pc'[p] # "handler" /\ M >= 1
                /\ Retryable(loc'[p].error_msg))
              => IF k < M
                 THEN /\ pc'[p] = "update_get"
                      /\ upd'[p].args.status = QUEUED
                      /\ upd'[p].args.next_retry_at > 0
                 ELSE /\ k = M
                      /\ pc'[p] = "rj_refresh"
        /\ (UpdateReturns(p) /\ upd[p].ret = "rj_final_get" /\ M >= 1
                /\ Retryable(loc[p].error_msg) /\ j \in DOMAIN jobs)
              => IF k < M
                 THEN /\ jobs'[j].status = QUEUED
                      /\ jobs'[j].next_retry_at = upd[p].args.next_retry_at
                      /\ jobs'[j].attempt_count = k
                      /\ DlqCount(j)' = 0
                 ELSE /\ jobs'[j].status = FAILED
                      /\ jobs'[j].attempt_count = M
                      /\ DlqCount(j)' = 1

BecomesFailed(j) ==
    /\ j \in DOMAIN jobs'
    /\ jobs'[j].status = FAILED
    /\ Get(j).status # FAILED

\* C3: whenever run_job marks a job failed, a DLQ entry with that
\* original_job_id has been added before and is in the DLQ store.
C3_FailedHasDlqEntry ==
    [][\A j \in JobIds : BecomesFailed(j) => DlqCount(j) >= 1]_vars

\* C3 (amended): whenever a run_job execution of a runner constructed with a
\* DLQ store marks a job failed, that execution has added a DLQ entry with
\* the job's id before, and the entry is in the DLQ store.
C3_FailedHasDlqEntryIfConfigured ==
    [][\A p \in Procs :
          LET j == call[p].job_id IN
          (UpdateReturns(p) /\ BecomesFailed(j) /\ call[p].dlq_store)
             => /\ loc[p].job_present
                /\ dlq_adds[j] >= 1
                /\ DlqCount(j) >= 1
                /\ \E i \in 1..Len(dlq) :
                      /\ dlq[i].original_job_id = j
                      /\ dlq[i].error_message = loc[p].error_msg]_vars

\* a runner with a DLQ store has just marked a job failed, the entry is there
C3_Witness ==
    \E p \in Procs :
        /\ pc[p] = "rj_final_get"
        /\ call[p].dlq_store
        /\ upd[p].args.status = FAILED
        /\ Get(call[p].job_id).status = FAILED
        /\ DlqCount(call[p].job_id) >= 1

\* C4: the DLQ store holds at most one entry per original_job_id, and exactly
\* one for each job that is marked failed (no entry is deleted in this model).
C4_OneEntryPerJob ==
    \A j \in JobIds :
        /\ DlqCount(j) <= 1
        /\ (j \in DOMAIN jobs /\ jobs[j].status = FAILED) => DlqCount(j) = 1

\* error_msg is the message of a raised error and is classified
\* permanent_error or invalid_input
NonRetryable(error_msg) ==
    /\ error_msg # NoError
    /\ classify_error(error_msg) \in {"permanent_error", "invalid_input"}

\* C5: a job whose handler fails with an error classified permanent_error or
\* invalid_input goes to the DLQ hand-off on that failure whatever
\* max_retries is: no retry is scheduled, the update that ends the attempt
\* marks the job failed with a DLQ entry for it and leaves next_retry_at as
\* it was, and the job does not return to queued.
C5_Step(p) ==
    LET j == call[p].job_id IN
    /\ (pc[p] = "handler" /\ NonRetryable(loc'[p].error_msg))
          => pc'[p] = "rj_refresh"
    /\ (NonRetryable(loc[p].error_msg) /\ j \in DOMAIN jobs
          /\ pc[p] \in {"rj_refresh", "rj_dlq_add", "update_get", "update_set"})
          => /\ jobs'[j].status # QUEUED
             /\ jobs'[j].next_retry_at \in {jobs[j].next_retry_at,
                                            Age(jobs[j].next_retry_at)}
             /\ upd'[p].args.next_retry_at = NoTime
             /\ pc'[p] = "rj_final_get"
                   => /\ jobs'[j].status = FAILED
                      /\ jobs'[j].error = loc[p].error_msg
                      /\ \E i \in 1..Len(dlq) :
                            /\ dlq[i].original_job_id = j
                            /\ dlq[i].error_message = loc[p].error_msg

C6_NotRerunBeforeRetryTime ==
    [][\A j \in DOMAIN jobs :
          (jobs[j].status = QUEUED /\ jobs[j].next_retry_at > 0)
             => /\ jobs'[j].status # RUNNING
                /\ handler_calls'[j] = handler_calls[j]]_vars

\* C7: run_job on a job whose status is not queued returns that job and
\* changes nothing: the job records, the DLQ store and the number of handler
\* invocations stay as they are, no update is started (attempt_count is not
\* incremented), and a direct caller receives the job with that status.
C7_Step(p) ==
    LET job == Get(call[p].job_id) IN
    (pc[p] = "rj_get" /\ pc'[p] # "rj_get" /\ job # NoJob /\ job.status # QUEUED)
       => /\ jobs' = jobs
          /\ dlq' = dlq
          /\ job_id_index' = job_id_index
          /\ handler_calls' = handler_calls
          /\ pc'[p] \in {"idle", "ir_sleep"}
          /\ upd'[p] = NoUpd
          /\ call[p].op = "run_job"
                => /\ pc'[p] = "idle"
                   /\ result'[p] = job.status

C7_NotQueuedIsNoOp == [][\A p \in Procs : C7_Step(p)]_vars

\* in the in-memory store a run_job call has returned the running job of
\* another caller's attempt: one handler invocation, attempt_count still 1
C7_Witness ==
    \E p, q \in Procs, j \in DOMAIN jobs :
        /\ backend = "memory"
        /\ pc[p] = "idle"
        /\ result[p] = RUNNING
        /\ pc[q] = "handler"
        /\ call[q].job_id = j
        /\ jobs[j].status = RUNNING
        /\ jobs[j].attempt_count = 1
        /\ handler_calls[j] = 1

\* C8: an exception raised by a pipeline handler does not end run_job: the
\* execution goes on to the retry update or to the DLQ hand-off, and when it
\* returns the job is queued with next_retry_at set or failed with a DLQ
\* entry, never running; a direct caller receives that job.
C8_Step(p) ==
    LET j == call[p].job_id IN
    /\ (pc[p] = "handler" /\ pc'[p] # "handler")
          => /\ pc'[p] \in {"update_get", "rj_refresh"}
             /\ result'[p] = result[p]
    /\ (pc[p] = "rj_final_get" /\ pc'[p] # "rj_final_get" /\ j \in DOMAIN jobs)
          => /\ loc[p].error_msg # NoError
             /\ \/ /\ jobs'[j].status = QUEUED
                   /\ jobs'[j].next_retry_at # NoTime
                   /\ jobs'[j].last_error = loc[p].error_msg
                \/ /\ jobs'[j].status = FAILED
                   /\ jobs'[j].error = loc[p].error_msg
                   /\ \E i \in 1..Len(dlq') : dlq'[i].original_job_id = j
             /\ call[p].op = "run_job"
                   => /\ pc'[p] = "idle"
                      /\ result'[p] = jobs'[j].status

C9_ImmediateRetryReturns ==
    \A p \in Procs :
        (call[p].op = "run_job_with_immediate_retry")
           ~> (pc[p] = "idle" /\ result[p] \in TerminalStatus \cup {"absent"})

\* C10: a job in status running has next_retry_at unset, and so has a job
\* that succeeded after it was rescheduled at least once.
C10_RunningClearsNextRetryAt ==
    \A j \in DOMAIN jobs :
        /\ jobs[j].status = RUNNING => jobs[j].next_retry_at = NoTime
        /\ (jobs[j].status = SUCCEEDED /\ jobs[j].attempt_count >= 2)
              => jobs[j].next_retry_at = NoTime

\* C11: a job queued pending a retry (status queued, next_retry_at set) has
\* attempt_count <= max_retries, and a handler failure that occurs while the
\* job's attempt_count >= max_retries does not return the job to queued; for
\* every max_retries >= 0.
C11_Step(p) ==
    LET job == Get(call[p].job_id) IN
    (pc[p] = "handler" /\ pc'[p] # "handler" /\ loc'[p].error_msg # NoError
        /\ job # NoJob /\ job.attempt_count >= job.max_retries)
       => /\ pc'[p] = "rj_refresh"
          /\ upd'[p].args.status # QUEUED

C11_RetryWithinLimit ==
    [][/\ \A j \in DOMAIN jobs' :
             (jobs'[j].status = QUEUED /\ jobs'[j].next_retry_at # NoTime)
                => jobs'[j].attempt_count <= jobs'[j].max_retries
       /\ \A p \in Procs : C11_Step(p)]_vars

\* C12: in every reachable state of either job store, whatever create,
\* update, start, complete, fail and run_job calls produced it, a running job
\* has started_at set and a succeeded, failed or cancelled job has
\* completed_at set.
C12_TimestampsFollowStatus ==
    \A j \in DOMAIN jobs :
        /\ jobs[j].status = RUNNING => jobs[j].started_at
        /\ jobs[j].status \in TerminalStatus => jobs[j].completed_at

\* a job was set running by start() (no attempt was made) and then cancelled
\* by update(status=CANCELLED): both timestamps are set
C12_Witness ==
    \E j \in DOMAIN jobs :
        /\ jobs[j].status = CANCELLED
        /\ jobs[j].attempt_count = 0
        /\ jobs[j].started_at
        /\ jobs[j].completed_at

\* C13: the DLQ entry that run_job creates has failure_reason
\* max_retries_exceeded when the failing attempt number is >= max_retries and
\* otherwise the reason the classifier returns for the error; its
\* attempt_count is the number of attempts made on the job; its
\* original_job_id, job_type, job_input, project_id, document_id and
\* created_by are those of the job.
C13_Step(p) ==
    LET j == call[p].job_id
        e == dlq'[Len(dlq')]
    IN  (pc[p] = "rj_dlq_add" /\ pc'[p] # "rj_dlq_add" /\ j \in DOMAIN jobs)
           => /\ Len(dlq') = Len(dlq) + 1
              /\ e.failure_reason =
                    IF loc[p].current_attempt >= jobs[j].max_retries
                    THEN "max_retries_exceeded"
                    ELSE classify_error(loc[p].error_msg)
              /\ e.error_message = loc[p].error_msg
              /\ e.attempt_count = handler_calls[j]
              /\ e.attempt_count = jobs[j].attempt_count
              /\ e.original_job_id = j
              /\ e.job_type = jobs[j].type
              /\ e.job_input = jobs[j].input
              /\ e.project_id = jobs[j].project_id
              /\ e.document_id = jobs[j].document_id
              /\ e.created_by = jobs[j].created_by
              /\ ~e.processed

C13_DlqEntryContent == [][\A p \in Procs : C13_Step(p)]_vars

\* an entry for a job with max_retries 2 whose second attempt failed: reason
\* max_retries_exceeded, attempt_count 2, the job's input
C13_Witness ==
    \E j \in DOMAIN jobs, i \in 1..Len(dlq) :
        /\ jobs[j].max_retries = 2
        /\ dlq[i].original_job_id = j
        /\ dlq[i].failure_reason = "max_retries_exceeded"
        /\ dlq[i].attempt_count = 2
        /\ dlq[i].job_input = jobs[j].input
        /\ dlq[i].project_id = jobs[j].project_id

\* C14: a job in status queued or running is never removed from the job
\* store: a delete request that finds it so is refused with a conflict and
\* leaves the record and the indices as they are.
C14_Step(p) ==
    LET job == Get(call[p].job_id) IN
    (pc[p] = "del_check" /\ pc'[p] # "del_check" /\ job # NoJob
        /\ job.status \in {QUEUED, RUNNING})
       => /\ result'[p] = "conflict"
          /\ pc'[p] = "idle"
          /\ jobs' = jobs
          /\ job_index' = job_index

C14_ActiveJobNotDeleted ==
    [][/\ \A j \in DOMAIN jobs :
             jobs[j].status \in {QUEUED, RUNNING} => j \in DOMAIN jobs'
       /\ \A p \in Procs : C14_Step(p)]_vars

\* C15: list_by_status(status, project_id, limit) returns, in both stores,
\* the limit newest-created jobs that match every filter given, newest
\* first: no matching job is left out while fewer than limit are returned.
C15_Expected(status, project_id, limit) ==
    Take(SortByCreatedDesc(
             {j \in DOMAIN jobs :
                 /\ status # NoStatus => jobs[j].status = status
                 /\ project_id # NoProject => jobs[j].project_id = project_id}),
         limit)

C15_ListNewestMatching ==
    [][\A p \in Procs :
          loc'[p].listing # loc[p].listing =>
             LET l == loc'[p].listing
             IN  l.jobs = C15_Expected(l.status, l.project_id, l.limit)]_vars

\* C16: an operation on an id that is not in the store returns None (False
\* for delete) and changes neither store: JobStore.get, update and delete,
\* run_job and run_job_with_immediate_retry on an absent job id, and
\* DeadLetterStore.get, get_by_job_id, mark_processed and delete on an absent
\* dlq id or a job id without entry.
StoresUnchanged ==
    /\ jobs' = jobs
    /\ job_index' = job_index
    /\ dlq' = dlq
    /\ job_id_index' = job_id_index
    /\ dlq_index' = dlq_index

C16_JobStep(p) ==
    (/\ call[p].op \in {"get", "update", "delete", "run_job",
                        "run_job_with_immediate_retry"}
     /\ Get(call[p].job_id) = NoJob
     /\ pc'[p] # pc[p])
       => /\ StoresUnchanged
          /\ pc'[p] \in {"idle", "store_done"}
          /\ pc'[p] = "idle" =>
                result'[p] = IF call[p].op = "delete" THEN "not_deleted"
                             ELSE "absent"

C16_DlqStep(p) ==
    LET r == loc'[p].dlq_ret IN
    /\ (/\ r # loc[p].dlq_ret
        /\ r.op \in {"get", "mark_processed", "delete"}
        /\ DlqGetEntry(r.dlq_id) = NoEntry)
          => StoresUnchanged /\ r.entry = NoEntry /\ r.flag = FALSE
    /\ (/\ r # loc[p].dlq_ret
        /\ r.op = "get_by_job_id"
        /\ \A i \in 1..Len(dlq) : dlq[i].original_job_id # r.job_id)
          => StoresUnchanged /\ r.entry = NoEntry

C16_AbsentIdIsNoOp ==
    [][\A p \in Procs : C16_JobStep(p) /\ C16_DlqStep(p)]_vars

\* each of the nine operations has returned for an absent id
C16_Witness ==
    /\ pc["p1"] = "idle"
    /\ result["p1"] = "not_deleted"
    /\ "j1" \in created
    /\ loc["p1"].dlq_ret.op = "delete"
    /\ loc["p1"].dlq_ret.flag = FALSE
    /\ dlq # <<>>

\* C17: right after add(entry), get_by_job_id(entry.original_job_id) returns
\* the entry just added, in both stores; after a second add for the same
\* original_job_id it returns the more recent entry.
C17_GetByJobIdReturnsLatestAdd ==
    [][\A j \in StoreJobIds :
          dlq_adds'[j] = dlq_adds[j] + 1 =>
             /\ dlq'[Len(dlq')].original_job_id = j
             /\ DlqGetByJobId(j)' = dlq'[Len(dlq')]]_vars

\* get_by_job_id has returned the second entry added for job j1 while the
\* first is still stored
C17_Witness ==
    /\ dlq_adds["j1"] = 2
    /\ Cardinality({i \in 1..Len(dlq) : dlq[i].original_job_id = "j1"}) = 2
    /\ loc["p1"].dlq_ret.op = "get_by_job_id"
    /\ loc["p1"].dlq_ret.job_id = "j1"
    /\ loc["p1"].dlq_ret.entry = dlq[Len(dlq)]
    /\ dlq[Len(dlq)].original_job_id = "j1"

\* C18: mark_processed on an unprocessed entry sets processed and
\* processed_at (a processed entry always has processed_at), makes
\* list(processed=False) one entry shorter, and leaves what list and count
\* return for each job_type and each project_id, and the job-id index, as
\* they were.
C18_Step(p, id) ==
    LET r == loc'[p].dlq_ret IN
    (/\ r # loc[p].dlq_ret
     /\ r.op = "mark_processed"
     /\ r.dlq_id = id
     /\ DlqGetEntry(id) # NoEntry
     /\ ~DlqGetEntry(id).processed)
       => /\ r.entry.processed /\ r.entry.processed_at
          /\ DlqGetEntry(id)' = r.entry
          /\ {Len(l) : l \in DlqListResults("false", NoFilter, NoFilter,
                                             DefaultLimit, 0)'}
               = {Len(l) - 1 : l \in DlqListResults("false", NoFilter, NoFilter,
                                                    DefaultLimit, 0)}
          /\ \A t \in JobType :
                /\ DlqListResults(NoFilter, t, NoFilter, DefaultLimit, 0)'
                     = DlqListResults(NoFilter, t, NoFilter, DefaultLimit, 0)
                /\ DlqCountResult(NoFilter, t, NoFilter)'
                     = DlqCountResult(NoFilter, t, NoFilter)
          /\ \A pr \in Projects :
                /\ DlqListResults(NoFilter, NoFilter, pr, DefaultLimit, 0)'
                     = DlqListResults(NoFilter, NoFilter, pr, DefaultLimit, 0)
                /\ DlqCountResult(NoFilter, NoFilter, pr)'
                     = DlqCountResult(NoFilter, NoFilter, pr)
          /\ job_id_index' = job_id_index

C18_MarkProcessedFrame ==
    [][/\ \A p \in Procs, id \in 1..(MaxDlqEntries + 1) : C18_Step(p, id)
       /\ \A i \in 1..Len(dlq) : dlq[i].processed => dlq[i].processed_at
       /\ \A i \in 1..Len(dlq') : dlq'[i].processed => dlq'[i].processed_at]_vars

\* mark_processed has just returned the entry, others are still unprocessed
C18_Witness ==
    /\ loc["p1"].dlq_ret.op = "mark_processed"
    /\ loc["p1"].dlq_ret.entry # NoEntry
    /\ DlqGetEntry(loc["p1"].dlq_ret.dlq_id) = loc["p1"].dlq_ret.entry
    /\ \E i \in 1..Len(dlq) : ~dlq[i].processed
    /\ Len(dlq) = 3

\* C19: purge(processed_only, older_than_hours) deletes exactly the entries
\* that are processed (when processed_only) and were created before now minus
\* older_than_hours (when given): they leave the entries and every index,
\* every other entry stays as it is, in the entries and in every index, and
\* the number deleted is returned; purge(True, 0) deletes every processed
\* entry and no unprocessed one.
C19_Selected(e, processed_only, older_than_hours) ==
    /\ processed_only => e.processed
    /\ older_than_hours >= 0 => e.dlq_created_at >= older_than_hours

C19_Step(p) ==
    LET r == loc'[p].dlq_ret
        sel == {i \in 1..Len(dlq) :
                   C19_Selected(dlq[i], r.processed_only, r.older_than_hours)}
        ids == {dlq[i].dlq_id : i \in sel}
        Kept(id) == id \notin ids
    IN  (r.op = "purge" /\ (r # loc[p].dlq_ret \/ Len(dlq') < Len(dlq)))
           => /\ dlq' = SelectSeq(dlq, LAMBDA e : e.dlq_id \notin ids)
              /\ r.count = Cardinality(sel)
              /\ dlq_index'.unprocessed = SelectSeq(dlq_index.unprocessed, Kept)
              /\ \A t \in JobType :
                    dlq_index'.type[t] = SelectSeq(dlq_index.type[t], Kept)
              /\ \A pr \in Projects :
                    dlq_index'.project[pr] = SelectSeq(dlq_index.project[pr], Kept)
              /\ \A j \in StoreJobIds :
                    job_id_index'[j] = IF job_id_index[j] \in ids THEN 0
                                       ELSE job_id_index[j]
              /\ (r.processed_only /\ r.older_than_hours = 0)
                    => /\ \A i \in 1..Len(dlq') : ~dlq'[i].processed
                       /\ \A i \in 1..Len(dlq) :
                             ~dlq[i].processed
                                => \E k \in 1..Len(dlq') : dlq'[k] = dlq[i]

C19_PurgeDeletesExactlyMatching == [][\A p \in Procs : C19_Step(p)]_vars

\* C20: in both stores and for every combination of the processed, job_type
\* and project_id filters, count returns the number of stored entries that
\* match all the filters given, and list with those filters and no
\* pagination limit returns just those entries.
C20_Matching(processed, job_type, project_id) ==
    {dlq[i].dlq_id : i \in
        {k \in 1..Len(dlq) :
            /\ processed = "true" => dlq[k].processed
            /\ processed = "false" => ~dlq[k].processed
            /\ job_type # NoFilter => dlq[k].job_type = job_type
            /\ project_id # NoFilter => dlq[k].project_id = project_id}}

C20_Step(p) ==
    LET r == loc'[p].dlq_ret
        matching == C20_Matching(r.processed, r.job_type, r.project_id)
    IN  /\ (r # loc[p].dlq_ret /\ r.op = "count")
              => r.count = Cardinality(matching)
        /\ (r # loc[p].dlq_ret /\ r.op = "list" /\ r.limit = DefaultLimit)
              => Range(r.ids) = matching /\ Len(r.ids) = Cardinality(matching)

C20_CountMatchesFilters == [][\A p \in Procs : C20_Step(p)]_vars

\* C21: in both stores list(processed, job_type, project_id, limit, offset)
\* returns the entries at positions offset .. offset + limit - 1 of all the
\* entries that match every filter given, newest dlq_created_at first.
C21_Page(processed, job_type, project_id, limit, offset) ==
    LET matching == SelectSeq(dlq, LAMBDA e :
                        /\ processed = "true" => e.processed
                        /\ processed = "false" => ~e.processed
                        /\ job_type # NoFilter => e.job_type = job_type
                        /\ project_id # NoFilter => e.project_id = project_id)
        newest_first == [i \in 1..Len(matching) |->
                            matching[Len(matching) + 1 - i].dlq_id]
    IN  [i \in 1..(Min(offset + limit, Len(newest_first)) - Min(offset, Len(newest_first)))
            |-> newest_first[offset + i]]

C21_ListPagesMatching ==
    [][\A p \in Procs :
          LET r == loc'[p].dlq_ret IN
          (r # loc[p].dlq_ret /\ r.op = "list")
             => r.ids = C21_Page(r.processed, r.job_type, r.project_id,
                                 r.limit, r.offset)]_vars

\* C22: in the Redis job store every update that finds the job leaves the
\* key job:<id> with the full job_ttl_hours to live, whatever it had left.
C22_UpdateRefreshesTtl ==
    [][\A p \in Procs :
          (pc[p] = "update_set" /\ pc'[p] # "update_set")
             => job_index'.ttl[call[p].job_id] = JobTtlHours]_vars

\* C23: in the Redis job store, once the create, update and delete calls
\* made have returned, the id of every stored job is in the status index of
\* its status and in no other, and the id of a deleted job is in no status
\* or project index.
C23_IndexMatchesStatus ==
    (backend = "redis" /\ \A p \in Procs : pc[p] = "idle")
       => \A j \in created :
             /\ j \in DOMAIN jobs =>
                   \A st \in JobStatus :
                      j \in Range(job_index.status[st]) <=> st = jobs[j].status
             /\ j \notin DOMAIN jobs =>
                   /\ \A st \in JobStatus : j \notin Range(job_index.status[st])
                   /\ \A pr \in Projects : j \notin Range(job_index.project[pr])

\* C24: classify_error goes through its categories in a fixed order over the
\* lower-cased message: a timeout keyword gives timeout also beside a
\* permanent-error keyword, else a permanent-error keyword gives
\* permanent_error, else "input" with "missing" or "required" gives
\* invalid_input, else an external-service keyword gives
\* external_service_error, else unknown; is_retryable_error is false exactly
\* for permanent_error and invalid_input
C24_HasKeyword(msg, patterns) == \E k \in patterns : Contains(Lower(msg), k)

C24_HasInput(msg) ==
    /\ \E i \in 1..Len(msg) : Lower(msg)[i] \in {"input", "invalid_input"}
    /\ \E i \in 1..Len(msg) : Lower(msg)[i] \in {"missing", "required"}

C24_Expected(msg) ==
    CASE C24_HasKeyword(msg, TIMEOUT_ERROR_PATTERNS) -> "timeout"
      [] ~C24_HasKeyword(msg, TIMEOUT_ERROR_PATTERNS)
         /\ C24_HasKeyword(msg, PERMANENT_ERROR_PATTERNS) -> "permanent_error"
      [] ~C24_HasKeyword(msg, TIMEOUT_ERROR_PATTERNS)
         /\ ~C24_HasKeyword(msg, PERMANENT_ERROR_PATTERNS)
         /\ C24_HasInput(msg) -> "invalid_input"
      [] ~C24_HasKeyword(msg, TIMEOUT_ERROR_PATTERNS)
         /\ ~C24_HasKeyword(msg, PERMANENT_ERROR_PATTERNS)
         /\ ~C24_HasInput(msg)
         /\ C24_HasKeyword(msg, EXTERNAL_SERVICE_PATTERNS) ->
             "external_service_error"
      [] OTHER -> "unknown"

C24_ClassifiedInOrder ==
    \A p \in Procs :
        loc[p].failure_reason # "none" =>
            /\ loc[p].failure_reason = C24_Expected(loc[p].error_msg)
            /\ loc[p].retryable =
                   (loc[p].failure_reason \in
                        {"timeout", "external_service_error", "unknown"})

\* a message with a timeout keyword and a permanent-error keyword has been
\* classified as timeout and is retryable
C24_Witness ==
    \E p \in Procs :
        /\ C24_HasKeyword(loc[p].error_msg, TIMEOUT_ERROR_PATTERNS)
        /\ C24_HasKeyword(loc[p].error_msg, PERMANENT_ERROR_PATTERNS)
        /\ loc[p].failure_reason = "timeout"
        /\ loc[p].retryable

\* C25: calculate_retry_delay(attempt) is min(base_delay *
\* multiplier^(attempt-1), max_delay) for attempt >= 1, base_delay >= 0 and
\* multiplier >= 1, does not decrease with attempt and never exceeds
\* max_delay; the next_retry_at run_job schedules when the k-th attempt of a
\* job fails lies that delay for attempt k after the failure
RECURSIVE C25_Power(_, _)
C25_Power(b, e) == IF e = 0 THEN 1 ELSE b * C25_Power(b, e - 1)

C25_Delay(attempt, base_delay, max_delay, multiplier) ==
    IF base_delay * C25_Power(multiplier, attempt - 1) <= max_delay
    THEN base_delay * C25_Power(multiplier, attempt - 1)
    ELSE max_delay

C25_Computed(b) ==
    /\ b.delay = C25_Delay(b.attempt, b.base_delay, b.max_delay, b.multiplier)
    /\ b.delay <= b.max_delay
    /\ calculate_retry_delay(b.attempt + 1, b.base_delay, b.max_delay,
                             b.multiplier) >= b.delay

\* p's run_job reschedules the job in this step
C25_Reschedules(p) ==
    /\ pc[p] = "handler"
    /\ pc'[p] = "update_get"
    /\ upd'[p].args.status = QUEUED

C25_BackoffDelay ==
    [][/\ \A p \in Procs :
            (loc[p].backoff.delay = NoTime /\ loc'[p].backoff.delay # NoTime)
                => C25_Computed(loc'[p].backoff)
       /\ \A p \in Procs :
            C25_Reschedules(p) =>
                /\ loc[p].current_attempt = handler_calls[call[p].job_id]
                /\ upd'[p].args.next_retry_at =
                       C25_Delay(handler_calls[call[p].job_id], RetryBaseDelay,
                                 RetryMaxDelay, RetryBackoffMultiplier)
       /\ \A p \in Procs :
            (pc[p] \in {"update_get", "update_set"} /\ pc'[p] = "rj_final_get"
             /\ upd[p].args.status = QUEUED
             /\ call[p].job_id \in DOMAIN jobs')
                => jobs'[call[p].job_id].next_retry_at =
                       upd[p].args.next_retry_at]_vars

\* the delay of an attempt beyond the first has been computed below the cap,
\* and a second attempt of a job has failed and is rescheduled with the
\* doubled delay
C25_Witness ==
    /\ \E p \in Procs :
           /\ loc[p].backoff.attempt > 1
           /\ loc[p].backoff.delay > loc[p].backoff.base_delay
           /\ loc[p].backoff.delay < loc[p].backoff.max_delay
    /\ \E p \in Procs :
           /\ pc[p] = "rj_final_get"
           /\ loc[p].current_attempt = 2
           /\ jobs[call[p].job_id].status = QUEUED
           /\ jobs[call[p].job_id].next_retry_at =
                  Min(RetryBaseDelay * RetryBackoffMultiplier, RetryMaxDelay)
           /\ jobs[call[p].job_id].next_retry_at > RetryBaseDelay

\* C26: process_pending_jobs(max) runs the immediate-retry loop only on
\* queued jobs whose next_retry_at is unset, on at most max of them;
\* process_retry_jobs invokes run_job once on each queued job of its page
\* whose next_retry_at is set and has elapsed and on no other job; each
\* returns the number of jobs it ran
C26_Entry(p) == loc[p].sweep.pending[loc[p].sweep.i]

\* the sweep of p invokes the runner on the job its loop has reached
C26_Invokes(p) == pc[p] = "sw_loop" /\ pc'[p] \in {"ir_start", "rj_get"}

\* the sweep of p passes the job its loop has reached
C26_Skips(p) ==
    /\ pc[p] = "sw_loop"
    /\ pc'[p] = "sw_loop"
    /\ loc'[p].sweep.i = loc[p].sweep.i + 1

C26_Returns(p) == pc[p] = "sw_loop" /\ pc'[p] = "idle"

C26_Elapsed(job) == job.next_retry_at # NoTime /\ job.next_retry_at <= 0

\* the jobs p's sweep is to run: pending takes first-attempt jobs (and, if
\* due is set, jobs whose retry time has elapsed), retry takes elapsed jobs
C26_Eligible(p, job, due) ==
    IF loc[p].sweep.op = "process_pending_jobs"
    THEN job.next_retry_at = NoTime \/ (due /\ C26_Elapsed(job))
    ELSE C26_Elapsed(job)

C26_Count(p, due) ==
    Cardinality({i \in 1..Len(loc[p].sweep.pending) :
                    C26_Eligible(p, loc[p].sweep.pending[i], due)})

C26_Step(p, due) ==
    /\ C26_Invokes(p) =>
           /\ C26_Eligible(p, C26_Entry(p), due)
           /\ Get(C26_Entry(p).job_id).status = QUEUED
           /\ call'[p].job_id = C26_Entry(p).job_id
           /\ call'[p].op = IF loc[p].sweep.op = "process_pending_jobs"
                            THEN "run_job_with_immediate_retry" ELSE "run_job"
           /\ loc'[p].sweep.i = loc[p].sweep.i + 1
           /\ loc'[p].sweep.processed <= loc[p].sweep.limit
    /\ C26_Skips(p) => ~C26_Eligible(p, C26_Entry(p), due)
    /\ C26_Returns(p) =>
           /\ loc'[p].sweep.ret = C26_Count(p, due)
           /\ loc[p].sweep.i = Len(loc[p].sweep.pending) + 1

C26_SweepsRunTheirJobs == [][\A p \in Procs : C26_Step(p, FALSE)]_vars

\* C26 as amended: process_pending_jobs runs the loop on the jobs of its page
\* whose next_retry_at is unset or has elapsed
C26_SweepsRunDueJobs == [][\A p \in Procs : C26_Step(p, TRUE)]_vars

\* process_pending_jobs has run a job whose retry time had elapsed and is
\* about to return the number of jobs it ran
C26_Witness ==
    \E p \in Procs :
        /\ pc[p] = "sw_loop"
        /\ loc[p].sweep.processed >= 1
        /\ loc[p].sweep.i > Len(loc[p].sweep.pending)
        /\ loc[p].sweep.op = "process_pending_jobs"
        /\ \E i \in 1..Len(loc[p].sweep.pending) :
               C26_Elapsed(loc[p].sweep.pending[i])

\* C27: succeeded and failed are absorbing under every interleaving: once
\* the stored status of a job is succeeded or failed, no step of a run_job
\* execution changes its status, output, error or attempt_count again
C27_TerminalAbsorbing ==
    [][\A j \in DOMAIN jobs :
          (jobs[j].status \in {SUCCEEDED, FAILED} /\ j \in DOMAIN jobs')
              => /\ jobs'[j].status = jobs[j].status
                 /\ jobs'[j].output = jobs[j].output
                 /\ jobs'[j].error = jobs[j].error
                 /\ jobs'[j].attempt_count = jobs[j].attempt_count]_vars

\* C28: in both stores, after any sequence of add, delete and purge,
\* whenever an entry with original_job_id = j is stored, get_by_job_id(j)
\* returns a stored entry with that original_job_id: deleting or purging one
\* of several entries of a job leaves the others reachable
C28_JobIdIndexReachesEntries ==
    \A j \in StoreJobIds :
        (\E i \in 1..Len(dlq) : dlq[i].original_job_id = j)
            => /\ DlqGetByJobId(j) # NoEntry
               /\ DlqGetByJobId(j).original_job_id = j

\* C29: a DLQ entry is requeued at most once under any interleaving of
\* retry, retry-and-run and acknowledge requests on its dlq_id: at most one
\* new job is created from it, no job is created for a request once the entry
\* is processed, and requeued_job_id names the single job created
\* the jobs created from entry e: the requests all name the entry added
\* first, and no job is created but by them
C29_CreatedFrom(e) == IF e.dlq_id = RouteDlqId THEN created ELSE {}

C29_RequestUnderWay(dlq_id) ==
    \E p \in Procs : /\ pc[p] \in {"dr_create", "dr_mark"}
                     /\ loc[p].dlq_ret.dlq_id = dlq_id

C29_RequeuedAtMostOnce ==
    /\ \A i \in 1..Len(dlq) :
          /\ Cardinality(C29_CreatedFrom(dlq[i])) <= 1
          /\ dlq[i].requeued_job_id # "none"
                => C29_CreatedFrom(dlq[i]) = {dlq[i].requeued_job_id}
          /\ (C29_CreatedFrom(dlq[i]) # {} /\ ~C29_RequestUnderWay(dlq[i].dlq_id))
                => dlq[i].requeued_job_id \in C29_CreatedFrom(dlq[i])
    /\ \A p \in Procs :
          result[p] = "bad_request" => loc[p].dlq_ret.job_id = "none"

\* C30: when process_retry_jobs is called again and again and every handler
\* call returns, every queued job whose next_retry_at has elapsed is
\* eventually picked up by run_job, also when more jobs are queued than the
\* page of the sweep holds
C30_Due(j) ==
    /\ j \in DOMAIN jobs
    /\ jobs[j].status = QUEUED
    /\ jobs[j].next_retry_at = 0

C30_DueJobsPickedUp ==
    \A j \in StoreJobIds : C30_Due(j) ~> ~C30_Due(j)

====
